---------------------------- MODULE Spec2Model ----------------------------
(***************************************************************************)
(* Cluster control plane of the primary proxy (ais/prxclu.go): joins and   *)
(* keepalives (POST /v1/cluster), maintenance verbs (PUT /v1/cluster),     *)
(* node removal (DELETE /v1/cluster/daemon/{id}) and the two-phase primary *)
(* handover (PUT /v1/cluster/proxy/{id}).                                  *)
(*                                                                         *)
(* The model is the state of ONE proxy process, Self.  Everything outside  *)
(* it (the other nodes' answers to probes and broadcasts, the requests     *)
(* that arrive) is an input chosen with \E.                                *)
(***************************************************************************)
EXTENDS Integers, Sequences, FiniteSets, Bags, TLC

(***************************************************************************)
(* Bounds of the model.                                                    *)
(***************************************************************************)
\* highest Smap version (the map is constructed with version 1, the started
\* cluster of three more nodes has version 4)
MaxSmapVersion == 6
\* highest RMD version (the map is constructed with version 1)
MaxRMDVersion == 2
\* number of requests that are past their checks and wait for Smap.modify
MaxPending == 2
\* number of self-register requests buffered in p.reg.pool
MaxPool == 1
\* width of an access mask, in bits
AccessBits == 3

(***************************************************************************)
(* Node identities.  A daemon ID determines its role.                      *)
(***************************************************************************)
Self == "p1"
ProxyIDs == {"p1", "p2"}
TargetIDs == {"t1", "t2", "t3"}
NodeIDs == ProxyIDs \cup TargetIDs
\* network addresses; Self answers at SelfEp
Endpoints == {"A", "B", "C", "D"}
SelfEp == "S"
ClusterUUID == "u1"
UUIDs == {"u1", "u2"}
HoThreads == {"h1", "h2"}

IsProxy(id) == id \in ProxyIDs
IsTarget(id) == id \in TargetIDs

\* cluster.Snode flags
SnodeMaintenance == "maint"
SnodeDecommission == "decomm"
SnodeMaintenanceMask == {SnodeMaintenance, SnodeDecommission}

\* the nil *Snode
NoNode == [ep |-> "", flags |-> {}]

\* ActionMsg.Action values of the maintenance verbs
ActStartMaintenance == "start-maintenance"
ActDecommission == "decommission"
ActShutdownNode == "shutdown-node"
ActStopMaintenance == "stop-maintenance"
testInitiatedRm == "test-initiated-removal"

VARIABLES
    smap,                 \* p.owner.smap: the installed snapshot
    rmd,                  \* p.owner.rmd: the installed snapshot
    rebalance,            \* p.owner.rmd.rebalance (atomic bool)
    inPrimaryTransition,  \* p.inPrimaryTransition (atomic bool)
    nodeStarted,          \* p.NodeStarted()
    clusterStarted,       \* p.ClusterStarted()
    regpool,              \* p.reg.pool
    pending,              \* requests between their checks and Smap.modify (bag)
    ho,                   \* cluSetPrimary calls in progress, one per thread
    msNonPrimary,         \* metasyncer: becomeNonPrimary() was called
    notifs,               \* p.notifs: registered rebalance listeners
    exited,               \* the process called cmn.ExitLogf
    msync,                \* metasyncer: the latest batch handed to sync()
    rebs,                 \* the rebalance round of every target (reb.Reb)
    xpro,                 \* the promote xaction of every target (xs.XactDirPromote)
    acc,                  \* the latest ModifyAccess call on a bucket's AccessAttrs
    mod,                  \* the Smap.modify that holds the Smap lock, by its phase
    bc,                   \* a bcast of the rebalance coordinator and its goroutines
    wt                    \* a callback of bcast that runs on a target for one peer

vars == <<smap, rmd, rebalance, inPrimaryTransition, nodeStarted, clusterStarted,
          regpool, pending, ho, msNonPrimary, notifs, exited, msync, rebs, xpro, acc, mod, bc, wt>>

(***************************************************************************)
(* smapX: helpers of the cluster map.                                      *)
(***************************************************************************)
GetProxy(m, id) == IF id \in DOMAIN m.Pmap THEN m.Pmap[id] ELSE NoNode
GetTarget(m, id) == IF id \in DOMAIN m.Tmap THEN m.Tmap[id] ELSE NoNode
GetNode(m, id) == IF id \in DOMAIN m.Pmap THEN m.Pmap[id] ELSE GetTarget(m, id)
isPrimary(m, id) == m.Primary = id
\* Snode.Equals: same ID (the caller looked osi up by nsi's ID) and same endpoints
Equals(osi, nsi) == osi.ep = nsi.ep
PresentInMaint(m, id) == GetNode(m, id).flags \cap SnodeMaintenanceMask # {}
ActiveTargets(m) == {t \in DOMAIN m.Tmap : m.Tmap[t].flags \cap SnodeMaintenanceMask = {}}
CountActiveTargets(m) == Cardinality(ActiveTargets(m))

MapDel(f, id) == [x \in (DOMAIN f) \ {id} |-> f[x]]
MapPut(f, id, v) == [x \in (DOMAIN f) \cup {id} |-> IF x = id THEN v ELSE f[x]]

\* the IC is derived from the proxies of the map
staffIC(m) == [m EXCEPT !.IC = {p \in DOMAIN m.Pmap : m.Pmap[p].flags \cap SnodeMaintenanceMask = {}}]

delProxy(m, sid) == [m EXCEPT !.Pmap = MapDel(m.Pmap, sid)]
delTarget(m, sid) == [m EXCEPT !.Tmap = MapDel(m.Tmap, sid)]

\* the node's entry is replaced by nsi carrying `flags`; exists: the ID was there
putNode(m, nsi, flags) ==
    IF IsProxy(nsi.id)
    THEN [smap |-> [m EXCEPT !.Pmap = MapPut(m.Pmap, nsi.id, [ep |-> nsi.ep, flags |-> flags])],
          exists |-> nsi.id \in DOMAIN m.Pmap]
    ELSE [smap |-> [m EXCEPT !.Tmap = MapPut(m.Tmap, nsi.id, [ep |-> nsi.ep, flags |-> flags])],
          exists |-> nsi.id \in DOMAIN m.Tmap]

setNodeFlags(m, sid, flags) ==
    IF sid \in DOMAIN m.Pmap
    THEN [m EXCEPT !.Pmap[sid].flags = @ \cup flags]
    ELSE IF sid \in DOMAIN m.Tmap
         THEN [m EXCEPT !.Tmap[sid].flags = @ \cup flags]
         ELSE m

clearNodeFlags(m, sid, flags) ==
    IF sid \in DOMAIN m.Pmap
    THEN [m EXCEPT !.Pmap[sid].flags = @ \ flags]
    ELSE IF sid \in DOMAIN m.Tmap
         THEN [m EXCEPT !.Tmap[sid].flags = @ \ flags]
         ELSE m

\* smapX.IsDuplicate: another node of the map already answers at nsi's endpoint
IsDuplicate(m, nsi) ==
    \E id \in (DOMAIN m.Pmap \cup DOMAIN m.Tmap) : id # nsi.id /\ GetNode(m, id).ep = nsi.ep

\* validateUUID: a join that advertises another cluster's UUID is rejected
validateUUID(localUUID, incomingUUID) ==
    IF incomingUUID = "" \/ localUUID = "" \/ incomingUUID = localUUID THEN "" ELSE "cie: uuid"

\* true iff the delta adds or removes an active target or flips a maintenance flag
requiresRebalance(prev, cur) == ActiveTargets(prev) # ActiveTargets(cur)

\* the versioned store installs a clone as the next version: under modify ...
smapInstall(cur, clone) == [clone EXCEPT !.Version = cur.Version + 1]
\* ... and when a handler that holds the lock puts its clone
smapPut(cur, clone) == smapInstall(cur, clone)

\* rebMD.inc under rmd.modify
rmdInc(r) == [r EXCEPT !.Version = r.Version + 1]

\* forwardCP: a proxy that is not the primary forwards the request
forwardCP(m) == ~isPrimary(m, Self)

(***************************************************************************)
(* Records of a request.                                                   *)
(***************************************************************************)
\* a request that passed its checks and is on its way to Smap.modify
NoTask == [verb |-> "", id |-> "", ep |-> "", skipReb |-> FALSE]
UpdTask(nsi) == [verb |-> "upd", id |-> nsi.id, ep |-> nsi.ep, skipReb |-> FALSE]
UnregTask(sid, skipReb) == [verb |-> "unreg", id |-> sid, ep |-> "", skipReb |-> skipReb]
CancelTask(sid, skipReb) == [verb |-> "cancel", id |-> sid, ep |-> "", skipReb |-> skipReb]

\* the smapModifier
Ctx(nsi, sid, flags, skipReb, msg) ==
    [nsi |-> nsi, sid |-> sid, flags |-> flags, skipReb |-> skipReb, msg |-> msg,
     smap |-> smap, exists |-> FALSE, rmdSet |-> FALSE, status |-> 0, rebCB |-> ""]

NoSI == [id |-> "", ep |-> ""]

(***************************************************************************)
\* the installed metadata a handler works on
Stores == [smap |-> smap, rmd |-> rmd, notifs |-> notifs]

(***************************************************************************)
(* smapOwner.modify: clone, pre, install iff pre returned no error, post   *)
(* (still under the lock), final (after the lock is released).             *)
(*   Pre(ctx, clone)        -> [err, clone, ctx, ev]                       *)
(*   Post(ctx, clone, r)    -> [ctx, rmd]                                  *)
(*   Final(ctx, clone, r, n)-> [ev, pairs, notifs]                         *)
(***************************************************************************)
smapModify(Pre(_, _), Post(_, _, _), Final(_, _, _, _), ctx0, st) ==
    LET ctx == [ctx0 EXCEPT !.smap = st.smap]
        p == Pre(ctx, st.smap)
    IN  IF p.err # ""
        THEN [smap |-> st.smap, rmd |-> st.rmd, notifs |-> st.notifs, err |-> p.err,
              ctx |-> p.ctx, ev |-> p.ev, pairs |-> {}]
        ELSE LET clone == smapInstall(st.smap, p.clone)
                 q == Post(p.ctx, clone, st.rmd)
                 f == Final(q.ctx, clone, q.rmd, st.notifs)
             IN  [smap |-> clone, rmd |-> q.rmd, notifs |-> f.notifs, err |-> "",
                  ctx |-> q.ctx, ev |-> p.ev \o f.ev, pairs |-> f.pairs]

(***************************************************************************)
(* POST /v1/cluster: joins and keepalives.                                 *)
(***************************************************************************)
\* the existing holder of the ID answers the probe at its endpoint
detectDaemonDuplicate(osi, nsi, alive) == alive

\* addOrUpdateNode that takes keepalives of the nodes of the map only
addOrUpdateNode_known(nsi, osi, keepalive, alive) ==
    IF keepalive
    THEN IF osi = NoNode
         THEN [ok |-> FALSE, heardFrom |-> FALSE, probed |-> FALSE]
         ELSE IF ~Equals(osi, nsi)
              THEN IF detectDaemonDuplicate(osi, nsi, alive)
                   THEN [ok |-> FALSE, heardFrom |-> FALSE, probed |-> TRUE]
                   ELSE [ok |-> TRUE, heardFrom |-> FALSE, probed |-> TRUE]
              ELSE [ok |-> FALSE, heardFrom |-> TRUE, probed |-> FALSE]
    ELSE IF osi # NoNode
         THEN IF ~nodeStarted
              THEN [ok |-> TRUE, heardFrom |-> FALSE, probed |-> FALSE]
              ELSE IF Equals(osi, nsi)
                   THEN [ok |-> FALSE, heardFrom |-> FALSE, probed |-> FALSE]
                   ELSE [ok |-> TRUE, heardFrom |-> FALSE, probed |-> FALSE]
         ELSE [ok |-> TRUE, heardFrom |-> FALSE, probed |-> FALSE]

\* addOrUpdateNode that adds a node again on every keepalive
addOrUpdateNode_readd(nsi, osi, keepalive, alive) ==
    IF keepalive
    THEN IF osi = NoNode
         THEN [ok |-> TRUE, heardFrom |-> FALSE, probed |-> FALSE]
         ELSE IF ~Equals(osi, nsi)
              THEN IF detectDaemonDuplicate(osi, nsi, alive)
                   THEN [ok |-> FALSE, heardFrom |-> FALSE, probed |-> TRUE]
                   ELSE [ok |-> TRUE, heardFrom |-> FALSE, probed |-> TRUE]
              ELSE [ok |-> TRUE, heardFrom |-> TRUE, probed |-> FALSE]
    ELSE IF osi # NoNode
         THEN IF ~nodeStarted
              THEN [ok |-> TRUE, heardFrom |-> FALSE, probed |-> FALSE]
              ELSE IF Equals(osi, nsi)
                   THEN [ok |-> FALSE, heardFrom |-> FALSE, probed |-> FALSE]
                   ELSE [ok |-> TRUE, heardFrom |-> FALSE, probed |-> FALSE]
         ELSE [ok |-> TRUE, heardFrom |-> FALSE, probed |-> FALSE]

\* [ok: go on with the join, heardFrom: the tracker was refreshed, probed]
addOrUpdateNode(nsi, osi, keepalive, alive) ==
    IF keepalive
    THEN IF osi = NoNode
         THEN [ok |-> TRUE, heardFrom |-> FALSE, probed |-> FALSE]
         ELSE IF ~Equals(osi, nsi)
              THEN IF detectDaemonDuplicate(osi, nsi, alive)
                   THEN [ok |-> FALSE, heardFrom |-> FALSE, probed |-> TRUE]
                   ELSE [ok |-> TRUE, heardFrom |-> FALSE, probed |-> TRUE]
              ELSE [ok |-> FALSE, heardFrom |-> TRUE, probed |-> FALSE]
    ELSE IF osi # NoNode
         THEN IF ~nodeStarted
              THEN [ok |-> TRUE, heardFrom |-> FALSE, probed |-> FALSE]
              ELSE IF Equals(osi, nsi)
                   THEN [ok |-> FALSE, heardFrom |-> FALSE, probed |-> FALSE]
                   ELSE [ok |-> TRUE, heardFrom |-> FALSE, probed |-> FALSE]
         ELSE [ok |-> TRUE, heardFrom |-> FALSE, probed |-> FALSE]

\* handleJoinKalive writing the node into the installed map in place
handleJoinKalive_inplace(nsi, regUUID, keepalive, flags, alive) ==
    LET a == IF IsProxy(nsi.id)
             THEN addOrUpdateNode(nsi, GetProxy(smap, nsi.id), keepalive, alive)
             ELSE IF keepalive
                  THEN addOrUpdateNode(nsi, GetTarget(smap, nsi.id), keepalive, alive)
                  ELSE [ok |-> TRUE, heardFrom |-> FALSE, probed |-> FALSE]
        ret(m, u, e) == [smap |-> m, update |-> u, err |-> e, heardFrom |-> a.heardFrom,
                         probed |-> a.probed]
    IN  IF ~isPrimary(smap, Self)
        THEN [smap |-> smap, update |-> FALSE, err |-> "not primary", heardFrom |-> FALSE,
              probed |-> FALSE]
        ELSE IF ~a.ok THEN ret(smap, FALSE, "")
        ELSE IF validateUUID(smap.UUID, regUUID) # ""
        THEN ret(smap, FALSE, validateUUID(smap.UUID, regUUID))
        ELSE IF ~clusterStarted
        THEN ret(putNode(smap, nsi, flags).smap, FALSE, "")
        ELSE IF IsDuplicate(smap, nsi) THEN ret(smap, FALSE, "duplicate IPs")
        ELSE ret(smap, TRUE, "")

\* under the Smap lock: [smap: the installed map, update, err, heardFrom]
handleJoinKalive(nsi, regUUID, keepalive, flags, alive) ==
    LET a == IF IsProxy(nsi.id)
             THEN addOrUpdateNode(nsi, GetProxy(smap, nsi.id), keepalive, alive)
             ELSE IF keepalive
                  THEN addOrUpdateNode(nsi, GetTarget(smap, nsi.id), keepalive, alive)
                  ELSE [ok |-> TRUE, heardFrom |-> FALSE, probed |-> FALSE]
        ret(m, u, e) == [smap |-> m, update |-> u, err |-> e, heardFrom |-> a.heardFrom,
                         probed |-> a.probed]
    IN  IF ~isPrimary(smap, Self)
        THEN [smap |-> smap, update |-> FALSE, err |-> "not primary", heardFrom |-> FALSE,
              probed |-> FALSE]
        ELSE IF ~a.ok THEN ret(smap, FALSE, "")
        ELSE IF validateUUID(smap.UUID, regUUID) # ""
        THEN ret(smap, FALSE, validateUUID(smap.UUID, regUUID))
        ELSE IF ~clusterStarted
        THEN ret(smapPut(smap, putNode(smap, nsi, flags).smap), FALSE, "")
        ELSE IF IsDuplicate(smap, nsi) THEN ret(smap, FALSE, "duplicate IPs")
        ELSE ret(smap, TRUE, "")

\* a self-register that carries no duplicate ID
selfRegisterProbe_off(nsi, alive) == [probed |-> FALSE, dup |-> FALSE]

\* a self-register whose ID the map holds with other endpoints: the holder is
\* probed: [probed, dup: the holder answered]
selfRegisterProbe(nsi, alive) ==
    LET osi == GetNode(smap, nsi.id)
    IN  IF osi # NoNode /\ ~Equals(osi, nsi)
        THEN [probed |-> TRUE, dup |-> detectDaemonDuplicate(osi, nsi, alive)]
        ELSE [probed |-> FALSE, dup |-> FALSE]

\* the answer of a handler that returns before it touches anything
\* [smap, rebalance, regpool, heardFrom, task, err, ev, locked]
postReturn(e, ev) ==
    [smap |-> smap, rebalance |-> rebalance, regpool |-> regpool, heardFrom |-> FALSE,
     task |-> NoTask, err |-> e, ev |-> ev, locked |-> FALSE]

\* the handler on the primary, from the parsing of the request up to the point
\* where updateAndDistribute is started
httpclupostPrimary(kind, nsi, regUUID, bmdUUID, reb, valid, hostOK, regOK, alive) ==
    LET keepalive == kind = "keepalive"
        userRegister == kind = "user-register"
        selfRegister == kind = "join"
        \* user-register reads only the Snode from the body
        rSmap == IF userRegister THEN "" ELSE regUUID
        rBMD == IF userRegister THEN "" ELSE bmdUUID
        rReb == IF userRegister THEN FALSE ELSE reb
        pool == IF selfRegister /\ ~clusterStarted THEN Append(regpool, nsi) ELSE regpool
        back(e, ev) == [postReturn(e, ev) EXCEPT !.regpool = pool]
        sp == IF selfRegister THEN selfRegisterProbe(nsi, alive)
              ELSE [probed |-> FALSE, dup |-> FALSE]
        j == handleJoinKalive(nsi, rSmap, keepalive, {}, alive)
        reb2 == IF IsTarget(nsi.id) /\ nodeStarted THEN (rebalance \/ rReb) ELSE rebalance
        hev == (IF sp.probed \/ j.probed THEN <<"probe">> ELSE <<>>)
               \o (IF j.heardFrom THEN <<"heardFrom">> ELSE <<>>)
        locked(task, e, ev) == [smap |-> j.smap, rebalance |-> reb2, regpool |-> pool,
                                heardFrom |-> j.heardFrom, task |-> task, err |-> e,
                                ev |-> ev, locked |-> TRUE]
    IN  IF ~valid THEN back("invalid node", <<>>)
        ELSE IF nodeStarted /\ validateUUID(ClusterUUID, rBMD) # ""
        THEN back(validateUUID(ClusterUUID, rBMD), <<>>)
        ELSE IF ~hostOK THEN back("invalid hostname", <<>>)
        ELSE IF userRegister /\ ~regOK THEN back("failed to reach node", <<"call">>)
        ELSE IF sp.dup THEN back("duplicate node ID", <<"probe">>)
        ELSE IF j.err # "" THEN locked(NoTask, j.err, hev)
        ELSE IF ~j.update THEN locked(NoTask, "", hev)
        ELSE IF IsTarget(nsi.id) /\ selfRegister
        THEN locked(UpdTask(nsi), "", hev \o <<"writeJSON">>)
        ELSE locked(UpdTask(nsi), "", hev)

\* httpclupost that handles a keepalive while the primary is in transition
httpclupost_nodrop(kind, nsi, regUUID, bmdUUID, reb, valid, hostOK, regOK, alive) ==
    IF forwardCP(smap) THEN postReturn("", <<"forward">>)
    ELSE httpclupostPrimary(kind, nsi, regUUID, bmdUUID, reb, valid, hostOK, regOK, alive)

\* httpclupost that does not keep the self-register in p.reg.pool
httpclupost_nopool(kind, nsi, regUUID, bmdUUID, reb, valid, hostOK, regOK, alive) ==
    IF inPrimaryTransition /\ kind = "keepalive" THEN postReturn("", <<>>)
    ELSE IF forwardCP(smap) THEN postReturn("", <<"forward">>)
    ELSE [httpclupostPrimary(kind, nsi, regUUID, bmdUUID, reb, valid, hostOK, regOK, alive)
            EXCEPT !.regpool = regpool]

\* POST /v1/cluster: the whole handler
httpclupost(kind, nsi, regUUID, bmdUUID, reb, valid, hostOK, regOK, alive) ==
    IF inPrimaryTransition /\ kind = "keepalive" THEN postReturn("", <<>>)
    ELSE IF forwardCP(smap) THEN postReturn("", <<"forward">>)
    ELSE httpclupostPrimary(kind, nsi, regUUID, bmdUUID, reb, valid, hostOK, regOK, alive)

\* _updPre without the check that this proxy is (still) the primary
_updPre_anyproxy(ctx, clone) ==
    LET pn == putNode(clone, ctx.nsi, ctx.flags)
    IN  [err |-> "", clone |-> staffIC(pn.smap),
         ctx |-> [ctx EXCEPT !.exists = pn.exists],
         ev |-> IF IsTarget(ctx.nsi.id) THEN <<"notify">> ELSE <<>>]

_updPre(ctx, clone) ==
    IF ~isPrimary(clone, Self)
    THEN [err |-> "not primary", clone |-> clone, ctx |-> ctx, ev |-> <<>>]
    ELSE LET pn == putNode(clone, ctx.nsi, ctx.flags)
         IN  [err |-> "", clone |-> staffIC(pn.smap),
              ctx |-> [ctx EXCEPT !.exists = pn.exists],
              ev |-> IF IsTarget(ctx.nsi.id) THEN <<"notify">> ELSE <<>>]

\* _updPost that asks requiresRebalance only
_updPost_delta(ctx, clone, r) ==
    IF ~IsTarget(ctx.nsi.id)
    THEN [ctx |-> ctx, rmd |-> r]
    ELSE IF requiresRebalance(ctx.smap, clone)
         THEN [ctx |-> [ctx EXCEPT !.rmdSet = TRUE],
               rmd |-> [rmdInc(r) EXCEPT !.TargetIDs = {ctx.nsi.id}]]
         ELSE [ctx |-> ctx, rmd |-> r]

_updPost(ctx, clone, r) ==
    IF ~IsTarget(ctx.nsi.id)
    THEN [ctx |-> ctx, rmd |-> r]
    ELSE IF ctx.exists \/ requiresRebalance(ctx.smap, clone)
         THEN [ctx |-> [ctx EXCEPT !.rmdSet = TRUE],
               rmd |-> [rmdInc(r) EXCEPT !.TargetIDs = {ctx.nsi.id}]]
         ELSE [ctx |-> ctx, rmd |-> r]

NewXactNL(r, cb) == [uuid |-> r.Version, rm |-> cb]

\* _updFinal that leaves the RMD out of the batch
_updFinal_normd(ctx, clone, r, nl) ==
    IF ctx.rmdSet /\ IsTarget(ctx.nsi.id)
    THEN [ev |-> <<"notifs.add", "sync">>, pairs |-> {"smap", "bmd"},
          notifs |-> nl \cup {NewXactNL(r, "")}]
    ELSE IF IsProxy(ctx.nsi.id)
         THEN [ev |-> <<"sync">>, pairs |-> {"smap", "bmd", "rmd"}, notifs |-> nl]
         ELSE [ev |-> <<"sync">>, pairs |-> {"smap", "bmd"}, notifs |-> nl]

_updFinal(ctx, clone, r, nl) ==
    IF ctx.rmdSet /\ IsTarget(ctx.nsi.id)
    THEN [ev |-> <<"notifs.add", "sync">>, pairs |-> {"smap", "bmd", "rmd"},
          notifs |-> nl \cup {NewXactNL(r, "")}]
    ELSE IF IsProxy(ctx.nsi.id)
         THEN [ev |-> <<"sync">>, pairs |-> {"smap", "bmd", "rmd"}, notifs |-> nl]
         ELSE [ev |-> <<"sync">>, pairs |-> {"smap", "bmd"}, notifs |-> nl]

\* the xactID that updateAndDistribute returns for the result r of its modify
updXactID(r) == IF r.err = "" /\ r.ctx.rmdSet THEN r.rmd.Version ELSE 0

\* [smap, rmd, notifs, err, ctx, ev, pairs]
updateAndDistribute(nsi, msg, flags) ==
    smapModify(_updPre, _updPost, _updFinal, Ctx(nsi, nsi.id, flags, FALSE, msg), Stores)

(***************************************************************************)
(* Removal, maintenance, rebalance.                                        *)
(***************************************************************************)
_perfRebPost(ctx, clone, r) ==
    IF ~ctx.skipReb /\ requiresRebalance(ctx.smap, clone)
    THEN [ctx |-> [ctx EXCEPT !.rmdSet = TRUE], rmd |-> rmdInc(r)]
    ELSE [ctx |-> ctx, rmd |-> r]

_syncFinal(ctx, clone, r, nl) ==
    IF ctx.rmdSet
    THEN [ev |-> <<"notifs.add", "sync">>, pairs |-> {"smap", "rmd"},
          notifs |-> nl \cup {NewXactNL(r, "")}]
    ELSE [ev |-> <<"sync">>, pairs |-> {"smap"}, notifs |-> nl]

\* the final of an RMD modify: [ev, pairs, notifs]
_syncRMDFinal(clone, rebCB, wait, nl) ==
    [ev |-> <<"sync", "notifs.add">> \o (IF wait THEN <<"wait">> ELSE <<>>),
     pairs |-> {"rmd"}, notifs |-> nl \cup {NewXactNL(clone, rebCB)}]

_unregNodePre(ctx, clone) ==
    LET node == GetNode(clone, ctx.sid)
    IN  IF ~isPrimary(clone, Self)
        THEN [err |-> "not primary", clone |-> clone, ctx |-> ctx, ev |-> <<>>]
        ELSE IF node = NoNode
        THEN [err |-> "node not found", clone |-> clone,
              ctx |-> [ctx EXCEPT !.status = 404], ev |-> <<>>]
        ELSE IF ~nodeStarted
        THEN [err |-> "", clone |-> clone, ctx |-> [ctx EXCEPT !.status = 503], ev |-> <<>>]
        ELSE IF IsProxy(ctx.sid)
        THEN [err |-> "", clone |-> staffIC(delProxy(clone, ctx.sid)), ctx |-> ctx, ev |-> <<>>]
        ELSE [err |-> "", clone |-> staffIC(delTarget(clone, ctx.sid)), ctx |-> ctx, ev |-> <<>>]

unregNode(action, sid, skipReb) ==
    smapModify(_unregNodePre, _perfRebPost, _syncFinal, Ctx(NoSI, sid, {}, skipReb, action), Stores)

\* up to the call of unregNode: [task, err, status, ev]
callRmSelf(action, sid, skipReb, m) ==
    IF GetNode(m, sid) = NoNode
    THEN [task |-> NoTask, err |-> "node not found", status |-> 404, ev |-> <<>>]
    ELSE [task |-> UnregTask(sid, skipReb), err |-> "", status |-> 0, ev |-> <<"call">>]

\* DELETE /v1/cluster/daemon/{sid}, up to the call of unregNode: [task, err, status, ev]
httpcludel(sid, intra, cid) ==
    IF GetNode(smap, sid) = NoNode
    THEN [task |-> NoTask, err |-> "node not found", status |-> 404, ev |-> <<>>]
    ELSE IF forwardCP(smap)
    THEN [task |-> NoTask, err |-> "", status |-> 0, ev |-> <<"forward">>]
    ELSE IF intra
    THEN IF cid = sid
         THEN [task |-> UnregTask(sid, FALSE), err |-> "", status |-> 0,
               ev |-> <<>>]
         ELSE [task |-> NoTask, err |-> "expecting self-initiated removal", status |-> 0,
               ev |-> <<>>]
    ELSE callRmSelf(testInitiatedRm, sid, FALSE, smap)

_cancelMaintPre(ctx, clone) ==
    IF ~isPrimary(clone, Self)
    THEN [err |-> "not primary", clone |-> clone, ctx |-> ctx, ev |-> <<>>]
    ELSE [err |-> "", clone |-> staffIC(clearNodeFlags(clone, ctx.sid, ctx.flags)),
          ctx |-> ctx, ev |-> <<>>]

cancelMaintenance(sid, skipReb) ==
    smapModify(_cancelMaintPre, _perfRebPost, _syncFinal,
               Ctx(NoSI, sid, SnodeMaintenanceMask, skipReb, ActStopMaintenance), Stores)

\* PUT stop-maintenance, up to the call of cancelMaintenance: [task, err, status, ev]
stopMaintenance(sid, skipReb) ==
    IF forwardCP(smap)
    THEN [task |-> NoTask, err |-> "", status |-> 0, ev |-> <<"forward">>]
    ELSE IF GetNode(smap, sid) = NoNode
    THEN [task |-> NoTask, err |-> "node not found", status |-> 404, ev |-> <<>>]
    ELSE IF ~PresentInMaint(smap, sid)
    THEN [task |-> NoTask, err |-> "not under maintenance", status |-> 0, ev |-> <<>>]
    ELSE [task |-> CancelTask(sid, skipReb), err |-> "", status |-> 0, ev |-> <<>>]

\* rebalance needs the primary and two active targets
canStartRebalance(m) ==
    IF ~isPrimary(m, Self) THEN "not primary"
    ELSE IF CountActiveTargets(m) < 2 THEN "not enough targets"
    ELSE ""

\* the node is flagged in the Smap: maintenance, or decommissioning
_markMaintPre(ctx, clone) ==
    IF ~isPrimary(clone, Self)
    THEN [err |-> "not primary", clone |-> clone, ctx |-> ctx, ev |-> <<>>]
    ELSE [err |-> "", clone |-> staffIC(setNodeFlags(clone, ctx.sid, ctx.flags)),
          ctx |-> ctx, ev |-> <<>>]

_noPost(ctx, clone, r) == [ctx |-> ctx, rmd |-> r]

markMaintenance(action, sid, st) ==
    smapModify(_markMaintPre, _noPost, _syncFinal,
               Ctx(NoSI, sid,
                   IF action = ActDecommission THEN {SnodeDecommission} ELSE {SnodeMaintenance},
                   FALSE, action), st)

\* [rmd, notifs, task, err, ev, pairs, rebID]
finalizeMaintenance(action, sid, st) ==
    LET none(e) == [rmd |-> st.rmd, notifs |-> st.notifs, task |-> NoTask, err |-> e,
                    ev |-> <<>>, pairs |-> {}, rebID |-> 0]
        e == canStartRebalance(st.smap)
        cb == IF action \in {ActDecommission, ActShutdownNode} THEN sid ELSE ""
        clone == rmdInc(st.rmd)
        f == _syncRMDFinal(clone, cb, TRUE, st.notifs)
        rm == callRmSelf(action, sid, TRUE, st.smap)
    IN  IF CountActiveTargets(st.smap) = 0 THEN none("")
        ELSE IF e = ""
        THEN [rmd |-> clone, notifs |-> f.notifs, task |-> NoTask, err |-> "", ev |-> f.ev,
              pairs |-> f.pairs, rebID |-> clone.Version]
        ELSE IF e # "not enough targets" THEN none(e)
        ELSE IF action = ActDecommission
        THEN [none(rm.err) EXCEPT !.task = rm.task, !.ev = rm.ev]
        ELSE none("")

\* the node is flagged, then the rebalance is run unless the request skips it
\* [smap, rmd, notifs, task, err, ev, pairs, rebID]
startMaintenance(action, sid, skipRebalance, st) ==
    LET m == markMaintenance(action, sid, st)
        f == finalizeMaintenance(action, sid, [smap |-> m.smap, rmd |-> m.rmd, notifs |-> m.notifs])
    IN  IF m.err # "" \/ skipRebalance
        THEN [smap |-> m.smap, rmd |-> m.rmd, notifs |-> m.notifs, task |-> NoTask,
              err |-> m.err, ev |-> m.ev, pairs |-> m.pairs, rebID |-> 0]
        ELSE [smap |-> m.smap, rmd |-> f.rmd, notifs |-> f.notifs, task |-> f.task,
              err |-> f.err, ev |-> m.ev \o f.ev, pairs |-> m.pairs \cup f.pairs,
              rebID |-> f.rebID]

\* PUT start-maintenance | decommission | shutdown-node
\* [smap, rmd, notifs, task, err, status, ev, pairs, rebID]
rmNode(action, sid, skipRebalance) ==
    LET none(e, st, ev) == [smap |-> smap, rmd |-> rmd, notifs |-> notifs, task |-> NoTask,
                            err |-> e, status |-> st, ev |-> ev, pairs |-> {}, rebID |-> 0]
        m == markMaintenance(action, sid, Stores)
        rm == callRmSelf(action, sid, TRUE, m.smap)
        t == startMaintenance(action, sid, skipRebalance, Stores)
    IN  IF forwardCP(smap) THEN none("", 0, <<"forward">>)
        ELSE IF GetNode(smap, sid) = NoNode THEN none("node not found", 404, <<>>)
        ELSE IF PresentInMaint(smap, sid) THEN none("already in maintenance", 0, <<>>)
        ELSE IF sid = Self THEN none("node is primary", 0, <<>>)
        ELSE IF IsProxy(sid)
        THEN IF m.err # "" THEN none(m.err, 0, <<>>)
             ELSE IF action \in {ActDecommission, ActShutdownNode}
             THEN [smap |-> m.smap, rmd |-> m.rmd, notifs |-> m.notifs, task |-> rm.task,
                   err |-> rm.err, status |-> rm.status, ev |-> m.ev \o rm.ev,
                   pairs |-> m.pairs, rebID |-> 0]
             ELSE [smap |-> m.smap, rmd |-> m.rmd, notifs |-> m.notifs, task |-> NoTask,
                   err |-> "", status |-> 0, ev |-> m.ev, pairs |-> m.pairs, rebID |-> 0]
        ELSE [smap |-> t.smap, rmd |-> t.rmd, notifs |-> t.notifs, task |-> t.task,
              err |-> t.err, status |-> 0, ev |-> t.ev, pairs |-> t.pairs, rebID |-> t.rebID]

\* PUT xact-start rebalance: [rmd, notifs, err, ev, pairs, rebID]
rebalanceCluster ==
    LET clone == rmdInc(rmd)
        f == _syncRMDFinal(clone, "", FALSE, notifs)
    IN  IF forwardCP(smap)
        THEN [rmd |-> rmd, notifs |-> notifs, err |-> "", ev |-> <<"forward">>, pairs |-> {},
              rebID |-> 0]
        ELSE IF canStartRebalance(smap) # ""
        THEN [rmd |-> rmd, notifs |-> notifs, err |-> canStartRebalance(smap), ev |-> <<>>,
              pairs |-> {}, rebID |-> 0]
        ELSE [rmd |-> clone, notifs |-> f.notifs, err |-> "", ev |-> f.ev, pairs |-> f.pairs,
              rebID |-> clone.Version]

\* the callback that removes the node however the rebalance ended
removeAfterRebalance_always(nlErr, nlAborted, sid) ==
    callRmSelf(ActDecommission, sid, TRUE, smap)

\* the listener's callback: [task, err, ev]
removeAfterRebalance(nlErr, nlAborted, sid) ==
    IF nlErr \/ nlAborted
    THEN [task |-> NoTask, err |-> "", status |-> 0, ev |-> <<"log">>]
    ELSE callRmSelf(ActDecommission, sid, TRUE, smap)

(***************************************************************************)
(* PUT /v1/cluster/proxy/{proxyid}: primary handover.                      *)
(***************************************************************************)
\* the nodes a broadcast to cluster.AllNodes reaches
BcastNodes(m) == (DOMAIN m.Pmap \cup DOMAIN m.Tmap) \ {Self}

\* cluSetPrimary that goes on although a node failed the prepare broadcast
cluSetPrimary_deaf(proxyid, failed, first) ==
    IF forwardCP(smap) THEN [go |-> FALSE, err |-> "", node |-> "", ev |-> <<"forward">>]
    ELSE IF GetProxy(smap, proxyid) = NoNode
    THEN [go |-> FALSE, err |-> "new primary not present", node |-> "", ev |-> <<>>]
    ELSE IF proxyid = Self THEN [go |-> FALSE, err |-> "", node |-> "", ev |-> <<>>]
    ELSE IF PresentInMaint(smap, proxyid)
    THEN [go |-> FALSE, err |-> "under maintenance", node |-> "", ev |-> <<>>]
    ELSE [go |-> TRUE, err |-> "", node |-> "", ev |-> <<"bcast prepare">>]

\* the checks and the prepare phase: [go, err, node, ev]
\* failed: the nodes that answer the prepare with an error; first: the first of them
cluSetPrimary(proxyid, failed, first) ==
    IF forwardCP(smap) THEN [go |-> FALSE, err |-> "", node |-> "", ev |-> <<"forward">>]
    ELSE IF GetProxy(smap, proxyid) = NoNode
    THEN [go |-> FALSE, err |-> "new primary not present", node |-> "", ev |-> <<>>]
    ELSE IF proxyid = Self THEN [go |-> FALSE, err |-> "", node |-> "", ev |-> <<>>]
    ELSE IF PresentInMaint(smap, proxyid)
    THEN [go |-> FALSE, err |-> "under maintenance", node |-> "", ev |-> <<>>]
    ELSE IF failed # {}
    THEN [go |-> FALSE, err |-> "prepare phase", node |-> first, ev |-> <<"bcast prepare">>]
    ELSE [go |-> TRUE, err |-> "", node |-> "", ev |-> <<"bcast prepare">>]

\* the targets of the largest Smap a bcast is given
BcastTargets == {"t1", "t2", "t3", "t4"}

\* no bcast is running on the target sid
NoBcast(sid) ==
    [pc |-> "idle", sid |-> sid, tmap |-> {}, todo |-> {}, wg |-> {}, incb |-> {},
     called |-> [t \in BcastTargets |-> 0], ret |-> [t \in BcastTargets |-> "none"],
     cnt |-> 0, errCnt |-> 0, peak |-> 0]

\* no Smap.modify is under way
NoModify == [pc |-> "idle", verb |-> "", ctx |-> <<>>, rmd |-> <<>>, ver |-> 0]

\* a lock that the handover alone takes
LockFree_ho == \A h \in HoThreads : ho[h].pc # "inpre"

\* the Smap lock is free
LockFree == (\A h \in HoThreads : ho[h].pc # "inpre") /\ mod.pc = "idle"

\* the first phase: the checks, the prepare broadcast, the flag
CluSetPrimaryPrepare(h) ==
    \E proxyid \in ProxyIDs, failed \in SUBSET BcastNodes(smap) :
      \E first \in (IF failed = {} THEN {""} ELSE failed) :
        \E r \in {cluSetPrimary(proxyid, failed, first)} :
            /\ ~exited
            /\ ho[h].pc = "idle"
            /\ inPrimaryTransition' = (IF r.go THEN TRUE ELSE inPrimaryTransition)
            /\ ho' = [ho EXCEPT ![h] = IF r.go
                                       THEN [pc |-> "prepared", psi |-> proxyid, log |-> <<"flag">>]
                                       ELSE ho[h]]
            /\ UNCHANGED <<wt, bc, mod, acc, xpro, rebs, smap, rmd, rebalance, nodeStarted, clusterStarted, regpool, pending,
                           msNonPrimary, notifs, exited, msync>>

\* Smap.modify, the pre callback under the lock: clone.Primary = psi, becomeNonPrimary()
CluSetPrimaryPre(h) ==
    /\ ~exited
    /\ ho[h].pc = "prepared"
    /\ LockFree
    /\ smap.Version < MaxSmapVersion
    /\ msNonPrimary' = TRUE
    /\ ho' = [ho EXCEPT ![h].pc = "inpre", ![h].log = Append(@, "becomeNonPrimary")]
    /\ UNCHANGED <<wt, bc, mod, acc, xpro, rebs, smap, rmd, rebalance, inPrimaryTransition, nodeStarted, clusterStarted,
                   regpool, pending, notifs, exited, msync>>

\* Smap.modify installs the clone and releases the lock
CluSetPrimaryInstall(h) ==
    /\ ~exited
    /\ ho[h].pc = "inpre"
    /\ smap' = smapInstall(smap, [smap EXCEPT !.Primary = ho[h].psi])
    /\ ho' = [ho EXCEPT ![h].pc = "installed", ![h].log = Append(@, "install")]
    /\ UNCHANGED <<wt, bc, mod, acc, xpro, rebs, rmd, rebalance, inPrimaryTransition, nodeStarted, clusterStarted,
                   regpool, pending, msNonPrimary, notifs, exited, msync>>

\* the commit broadcast sent as soon as the flag is set
CluSetPrimaryCommit_early(h) ==
    \E failed \in SUBSET BcastNodes(smap) :
        /\ ~exited
        /\ ho[h].pc \in {"prepared", "installed"}
        /\ exited' = (ho[h].psi \in failed)
        /\ inPrimaryTransition' = (IF ho[h].psi \in failed THEN inPrimaryTransition ELSE FALSE)
        /\ ho' = [ho EXCEPT ![h].pc = "idle", ![h].log = Append(@, "commit")]
        /\ UNCHANGED <<wt, bc, mod, acc, xpro, rebs, smap, rmd, rebalance, nodeStarted, clusterStarted, regpool, pending,
                       msNonPrimary, notifs, msync>>

\* the commit phase that takes the error of any node for fatal
cluSetPrimaryCommit_strict(proxyid, failed) ==
    [exit |-> failed # {}, logged |-> {}]

\* the loop over the results of the commit broadcast: [exit: cmn.ExitLogf ends
\* the process, logged: the nodes whose error is written to the log]
\* failed: the nodes that answer the commit with an error
cluSetPrimaryCommit(proxyid, failed) ==
    [exit |-> proxyid \in failed, logged |-> failed \ {proxyid}]

\* the commit phase with the answers of the nodes; the deferred Store(false)
\* runs when the handler returns
CommitWith(h, failed) ==
    \E r \in {cluSetPrimaryCommit(ho[h].psi, failed)} :
        /\ ~exited
        /\ ho[h].pc = "installed"
        /\ exited' = r.exit
        /\ inPrimaryTransition' = (IF r.exit THEN inPrimaryTransition ELSE FALSE)
        /\ ho' = [ho EXCEPT ![h].pc = "idle", ![h].log = Append(@, "commit")]
        /\ UNCHANGED <<wt, bc, mod, acc, xpro, rebs, smap, rmd, rebalance, nodeStarted, clusterStarted, regpool, pending,
                       msNonPrimary, notifs, msync>>

CluSetPrimaryCommit(h) == \E failed \in SUBSET BcastNodes(smap) : CommitWith(h, failed)

(***************************************************************************)
(* The steps of the other handlers.                                        *)
(***************************************************************************)
Has(ev, x) == \E i \in DOMAIN ev : ev[i] = x
Push(t) == IF t = NoTask THEN pending ELSE pending (+) SetToBag({t})
CanPush(t) == t = NoTask \/ BagCardinality(pending) < MaxPending
InBounds(m, r) == m.Version <= MaxSmapVersion /\ r.Version <= MaxRMDVersion
\* the batch of the latest sync() of a handler that answered r
Synced(r, m, v) ==
    IF Has(r.ev, "sync") THEN [smapV |-> m.Version, rmdV |-> v.Version, pairs |-> r.pairs]
    ELSE msync

\* the requests that arrive at POST /v1/cluster: the nodes that ask to join ...
JoinNodes ==
    { [id |-> "p2", ep |-> "A"], [id |-> "t1", ep |-> "B"],
      [id |-> "t1", ep |-> "C"], [id |-> "t2", ep |-> "C"] }
PostKinds == {"user-register", "keepalive", "join"}
\* ... and at most one anomaly per request, one for each check of the handler
Anomalies == {"invalid", "hostname", "unreachable", "smap uuid", "bmd uuid"}
PostRequests ==
    [kind : PostKinds, nsi : JoinNodes, an : {"none"}, reb : {FALSE}, alive : BOOLEAN]
    \cup [kind : {"join"}, nsi : {n \in JoinNodes : IsTarget(n.id)}, an : {"none"},
          reb : {TRUE}, alive : {FALSE}]
    \cup [kind : PostKinds, nsi : {n \in JoinNodes : n.id = "t1"}, an : Anomalies,
          reb : {FALSE}, alive : {FALSE}]

\* the handler's answer to one request
post(q) ==
    httpclupost(q.kind, q.nsi,
                IF q.an = "smap uuid" THEN "u2" ELSE ClusterUUID,
                IF q.an = "bmd uuid" THEN "u2" ELSE ClusterUUID,
                q.reb, q.an # "invalid", q.an # "hostname", q.an # "unreachable", q.alive)

HttpCluPost(Q) ==
    \E q \in Q :
        \E r \in {post(q)} :
            /\ ~exited
            /\ r.locked => LockFree
            /\ r.smap.Version <= MaxSmapVersion
            /\ Len(r.regpool) <= MaxPool
            /\ CanPush(r.task)
            /\ smap' = r.smap
            /\ rebalance' = r.rebalance
            /\ regpool' = r.regpool
            /\ pending' = Push(r.task)
            /\ UNCHANGED <<wt, bc, mod, acc, xpro, rebs, rmd, inPrimaryTransition, nodeStarted, clusterStarted, ho,
                           msNonPrimary, notifs, exited, msync>>

\* the Smap.modify of a join that passed its checks
UpdateAndDistribute ==
    \E t \in BagToSet(pending) :
        \E r \in {updateAndDistribute([id |-> t.id, ep |-> t.ep], "", {})} :
            /\ ~exited
            /\ t.verb = "upd"
            /\ LockFree
            /\ InBounds(r.smap, r.rmd)
            /\ smap' = r.smap
            /\ rmd' = r.rmd
            /\ notifs' = r.notifs
            /\ pending' = pending (-) SetToBag({t})
            /\ msync' = Synced(r, r.smap, r.rmd)
            /\ UNCHANGED <<wt, bc, mod, acc, xpro, rebs, rebalance, inPrimaryTransition, nodeStarted, clusterStarted, regpool,
                           ho, msNonPrimary, exited>>

\* DELETE /v1/cluster/daemon/{sid}; cid is the caller's ID of an intra-cluster request
DelRequests ==
    [sid : NodeIDs, intra : {FALSE}, cid : {""}]
    \cup [sid : NodeIDs \ {Self}, intra : {TRUE}, cid : {"t1", "t2"}]

HttpCluDel(Q) ==
    \E q \in Q :
        \E r \in {httpcludel(q.sid, q.intra, q.cid)} :
            /\ ~exited
            /\ CanPush(r.task)
            /\ pending' = Push(r.task)
            /\ UNCHANGED <<wt, bc, mod, acc, xpro, rebs, smap, rmd, rebalance, inPrimaryTransition, nodeStarted,
                           clusterStarted, regpool, ho, msNonPrimary, notifs, exited, msync>>

UnregNode ==
    \E t \in BagToSet(pending) :
        \E r \in {unregNode("", t.id, t.skipReb)} :
            /\ ~exited
            /\ t.verb = "unreg"
            /\ LockFree
            /\ InBounds(r.smap, r.rmd)
            /\ smap' = r.smap
            /\ rmd' = r.rmd
            /\ notifs' = r.notifs
            /\ pending' = pending (-) SetToBag({t})
            /\ msync' = Synced(r, r.smap, r.rmd)
            /\ UNCHANGED <<wt, bc, mod, acc, xpro, rebs, rebalance, inPrimaryTransition, nodeStarted, clusterStarted, regpool,
                           ho, msNonPrimary, exited>>

\* PUT /v1/cluster with start-maintenance, decommission or shutdown-node
RmRequests ==
    [action : {ActStartMaintenance, ActDecommission, ActShutdownNode}, sid : NodeIDs,
     skipRebalance : BOOLEAN]

RmNode(Q) ==
    \E q \in Q :
        \E r \in {rmNode(q.action, q.sid, q.skipRebalance)} :
            /\ ~exited
            /\ LockFree
            /\ InBounds(r.smap, r.rmd)
            /\ CanPush(r.task)
            /\ smap' = r.smap
            /\ rmd' = r.rmd
            /\ notifs' = r.notifs
            /\ pending' = Push(r.task)
            /\ msync' = Synced(r, r.smap, r.rmd)
            /\ UNCHANGED <<wt, bc, mod, acc, xpro, rebs, rebalance, inPrimaryTransition, nodeStarted, clusterStarted, regpool,
                           ho, msNonPrimary, exited>>

\* PUT /v1/cluster with stop-maintenance
StopRequests == [sid : NodeIDs, skipReb : BOOLEAN]

StopMaintenance(Q) ==
    \E q \in Q :
        \E r \in {stopMaintenance(q.sid, q.skipReb)} :
            /\ ~exited
            /\ CanPush(r.task)
            /\ pending' = Push(r.task)
            /\ UNCHANGED <<wt, bc, mod, acc, xpro, rebs, smap, rmd, rebalance, inPrimaryTransition, nodeStarted,
                           clusterStarted, regpool, ho, msNonPrimary, notifs, exited, msync>>

CancelMaintenance ==
    \E t \in BagToSet(pending) :
        \E r \in {cancelMaintenance(t.id, t.skipReb)} :
            /\ ~exited
            /\ t.verb = "cancel"
            /\ LockFree
            /\ InBounds(r.smap, r.rmd)
            /\ smap' = r.smap
            /\ rmd' = r.rmd
            /\ notifs' = r.notifs
            /\ pending' = pending (-) SetToBag({t})
            /\ msync' = Synced(r, r.smap, r.rmd)
            /\ UNCHANGED <<wt, bc, mod, acc, xpro, rebs, rebalance, inPrimaryTransition, nodeStarted, clusterStarted, regpool,
                           ho, msNonPrimary, exited>>

\* PUT /v1/cluster with xact-start of a rebalance
RebalanceCluster ==
    \E r \in {rebalanceCluster} :
        /\ ~exited
        /\ InBounds(smap, r.rmd)
        /\ rmd' = r.rmd
        /\ notifs' = r.notifs
        /\ msync' = Synced(r, smap, r.rmd)
        /\ UNCHANGED <<wt, bc, mod, acc, xpro, rebs, smap, rebalance, inPrimaryTransition, nodeStarted, clusterStarted,
                       regpool, pending, ho, msNonPrimary, exited>>

\* a rebalance ends: the listener fires once, on the first terminal status
RebalanceDone ==
    \E nl \in notifs, nlErr \in BOOLEAN, nlAborted \in BOOLEAN :
        \E r \in {IF nl.rm = ""
                 THEN [task |-> NoTask, err |-> "", status |-> 0, ev |-> <<>>]
                 ELSE removeAfterRebalance(nlErr, nlAborted, nl.rm)} :
            /\ ~exited
            /\ CanPush(r.task)
            /\ notifs' = notifs \ {nl}
            /\ pending' = Push(r.task)
            /\ UNCHANGED <<wt, bc, mod, acc, xpro, rebs, smap, rmd, rebalance, inPrimaryTransition, nodeStarted,
                           clusterStarted, regpool, ho, msNonPrimary, exited, msync>>

\* startup of the primary
MarkNodeStarted ==
    /\ ~exited
    /\ ~nodeStarted
    /\ nodeStarted' = TRUE
    /\ UNCHANGED <<wt, bc, mod, acc, xpro, rebs, smap, rmd, rebalance, inPrimaryTransition, clusterStarted, regpool, pending,
                   ho, msNonPrimary, notifs, exited, msync>>

\* the buffered joins are put into the map, once, and the buffer is emptied
RECURSIVE replay(_, _)
replay(m, pool) ==
    IF pool = <<>> THEN m ELSE replay(putNode(m, Head(pool), {}).smap, Tail(pool))

MarkClusterStarted ==
    /\ ~exited
    /\ nodeStarted
    /\ ~clusterStarted
    /\ LockFree
    /\ clusterStarted' = TRUE
    /\ smap' = (IF regpool = <<>> THEN smap ELSE smapPut(smap, replay(smap, regpool)))
    /\ smap'.Version <= MaxSmapVersion
    /\ regpool' = <<>>
    /\ UNCHANGED <<wt, bc, mod, acc, xpro, rebs, rmd, rebalance, inPrimaryTransition, nodeStarted, pending,
                   ho, msNonPrimary, notifs, exited, msync>>

(***************************************************************************)
(* reb.Reb: the rebalance round of a target and its talk with its peers.   *)
(***************************************************************************)
\* the stages of a round, in their order
rebStageInit == 1
rebStageTraverse == 2
rebStageWaitAck == 3
rebStageFin == 4

\* a target that runs no round; bcast: it sent its abort to its peers; why:
\* what it logged when it aborted; peers[p]: the latest stage that p pushed
NoRound ==
    [rebID |-> 0, stage |-> 0, aborted |-> FALSE, bcast |-> FALSE, why |-> "",
     peers |-> [p \in TargetIDs |-> 0]]
\* the round a target starts for the RMD version id
NewRound(id) == [NoRound EXCEPT !.rebID = id, !.stage = rebStageInit]

\* GET /health?reb-status=true of tsi; awaited: the targets it waits for ACKs from
Status(tsi, awaited) ==
    [RebID |-> rebs[tsi].rebID, Stage |-> rebs[tsi].stage, Aborted |-> rebs[tsi].aborted,
     Targets |-> awaited]
\* the nil *Status, and the zero value &Status{}
NilStatus == [RebID |-> -1, Stage |-> 0, Aborted |-> FALSE, Targets |-> {}]
ZeroStatus == [RebID |-> 0, Stage |-> 0, Aborted |-> FALSE, Targets |-> {}]

\* reb.stages.isInStage: tsi pushed that it reached the stage
isInStage(t, tsi, stage) == rebs[t].peers[tsi] >= stage

\* what Health(tsi) gives: the status, one transport error and then the status,
\* two transport errors, a body that does not unmarshal
HealthResults == {"ok", "err-ok", "err-err", "garbled"}

\* checkGlobStatus that aborts without telling the peers
checkGlobStatus_quiet(t, tsi, desiredStage, resp, awaited) ==
    LET status == Status(tsi, awaited)
        n == IF resp \in {"err-ok", "err-err"} /\ ~rebs[t].aborted THEN 2 ELSE 1
        ret(st, ok, act, log) ==
            [status |-> st, ok |-> ok, act |-> act, log |-> log, probes |-> n]
    IN  IF resp \in {"err-ok", "err-err"} /\ rebs[t].aborted THEN ret(NilStatus, FALSE, "", "abort check status")
        ELSE IF resp = "err-err" THEN ret(NilStatus, FALSE, "Abort", "health returned err")
        ELSE IF resp = "garbled" THEN ret(ZeroStatus, FALSE, "Abort", "failed to unmarshal")
        ELSE IF status.RebID > rebs[t].rebID THEN ret(status, FALSE, "Abort", "runs newer")
        ELSE IF status.RebID < rebs[t].rebID THEN ret(status, FALSE, "", "runs older")
        ELSE IF status.RebID = rebs[t].rebID /\ status.Aborted THEN ret(status, FALSE, "Abort", "aborting as well")
        ELSE IF status.Stage >= desiredStage THEN ret(status, TRUE, "", "")
        ELSE ret(status, FALSE, "", "not yet at the right stage")

\* checkGlobStatus that tells the peers of every abort
checkGlobStatus_loud(t, tsi, desiredStage, resp, awaited) ==
    LET status == Status(tsi, awaited)
        n == IF resp \in {"err-ok", "err-err"} /\ ~rebs[t].aborted THEN 2 ELSE 1
        ret(st, ok, act, log) ==
            [status |-> st, ok |-> ok, act |-> act, log |-> log, probes |-> n]
    IN  IF resp \in {"err-ok", "err-err"} /\ rebs[t].aborted THEN ret(NilStatus, FALSE, "", "abort check status")
        ELSE IF resp = "err-err" THEN ret(NilStatus, FALSE, "abortAndBroadcast", "health returned err")
        ELSE IF resp = "garbled" THEN ret(ZeroStatus, FALSE, "abortAndBroadcast", "failed to unmarshal")
        ELSE IF status.RebID > rebs[t].rebID THEN ret(status, FALSE, "abortAndBroadcast", "runs newer")
        ELSE IF status.RebID < rebs[t].rebID THEN ret(status, FALSE, "", "runs older")
        ELSE IF status.RebID = rebs[t].rebID /\ status.Aborted
        THEN ret(status, FALSE, "abortAndBroadcast", "aborting as well")
        ELSE IF status.Stage >= desiredStage THEN ret(status, TRUE, "", "")
        ELSE ret(status, FALSE, "", "not yet at the right stage")

\* checkGlobStatus that gives up after the second error of Health and leaves
\* the round alone
checkGlobStatus_giveup(t, tsi, desiredStage, resp, awaited) ==
    LET status == Status(tsi, awaited)
        n == IF resp \in {"err-ok", "err-err"} /\ ~rebs[t].aborted THEN 2 ELSE 1
        ret(st, ok, act, log) ==
            [status |-> st, ok |-> ok, act |-> act, log |-> log, probes |-> n]
    IN  IF resp \in {"err-ok", "err-err"} /\ rebs[t].aborted THEN ret(NilStatus, FALSE, "", "abort check status")
        ELSE IF resp = "err-err" THEN ret(NilStatus, FALSE, "", "health returned err")
        ELSE IF resp = "garbled" THEN ret(ZeroStatus, FALSE, "abortAndBroadcast", "failed to unmarshal")
        ELSE IF status.RebID > rebs[t].rebID THEN ret(status, FALSE, "abortAndBroadcast", "runs newer")
        ELSE IF status.RebID < rebs[t].rebID THEN ret(status, FALSE, "", "runs older")
        ELSE IF status.RebID = rebs[t].rebID /\ status.Aborted THEN ret(status, FALSE, "Abort", "aborting as well")
        ELSE IF status.Stage >= desiredStage THEN ret(status, TRUE, "", "")
        ELSE ret(status, FALSE, "", "not yet at the right stage")

\* checkGlobStatus that retries in an aborted round as well
checkGlobStatus_retry(t, tsi, desiredStage, resp, awaited) ==
    LET status == Status(tsi, awaited)
        n == IF resp \in {"err-ok", "err-err"} THEN 2 ELSE 1
        ret(st, ok, act, log) ==
            [status |-> st, ok |-> ok, act |-> act, log |-> log, probes |-> n]
    IN  IF resp = "err-err" THEN ret(NilStatus, FALSE, "abortAndBroadcast", "health returned err")
        ELSE IF resp = "garbled" THEN ret(ZeroStatus, FALSE, "abortAndBroadcast", "failed to unmarshal")
        ELSE IF status.RebID > rebs[t].rebID THEN ret(status, FALSE, "abortAndBroadcast", "runs newer")
        ELSE IF status.RebID < rebs[t].rebID THEN ret(status, FALSE, "", "runs older")
        ELSE IF status.RebID = rebs[t].rebID /\ status.Aborted THEN ret(status, FALSE, "Abort", "aborting as well")
        ELSE IF status.Stage >= desiredStage THEN ret(status, TRUE, "", "")
        ELSE ret(status, FALSE, "", "not yet at the right stage")

\* the probe of the target t at its peer tsi: [status, ok, act: what it does
\* to the local round, probes: the calls of Health]
checkGlobStatus(t, tsi, desiredStage, resp, awaited) ==
    LET status == Status(tsi, awaited)
        n == IF resp \in {"err-ok", "err-err"} /\ ~rebs[t].aborted THEN 2 ELSE 1
        ret(st, ok, act, log) ==
            [status |-> st, ok |-> ok, act |-> act, log |-> log, probes |-> n]
    IN  IF resp \in {"err-ok", "err-err"} /\ rebs[t].aborted THEN ret(NilStatus, FALSE, "", "abort check status")
        ELSE IF resp = "err-err" THEN ret(NilStatus, FALSE, "abortAndBroadcast", "health returned err")
        ELSE IF resp = "garbled" THEN ret(ZeroStatus, FALSE, "abortAndBroadcast", "failed to unmarshal")
        ELSE IF status.RebID > rebs[t].rebID THEN ret(status, FALSE, "abortAndBroadcast", "runs newer")
        ELSE IF status.RebID < rebs[t].rebID THEN ret(status, FALSE, "", "runs older")
        ELSE IF status.RebID = rebs[t].rebID /\ status.Aborted THEN ret(status, FALSE, "Abort", "aborting as well")
        ELSE IF status.Stage >= desiredStage THEN ret(status, TRUE, "", "")
        ELSE ret(status, FALSE, "", "not yet at the right stage")

\* one turn of the loop of rxReady: [ok, act, probed]
rxReady(t, tsi, resp, awaited) ==
    LET c == checkGlobStatus(t, tsi, rebStageTraverse, resp, awaited)
    IN  IF isInStage(t, tsi, rebStageTraverse)
        THEN [ok |-> TRUE, act |-> "", log |-> "", probed |-> FALSE]
        ELSE [ok |-> c.ok, act |-> c.act, log |-> c.log, probed |-> TRUE]

\* one turn of the loop of waitFinExtended: [ok, act, probed]
waitFinExtended(t, tsi, resp, awaited) ==
    LET c == checkGlobStatus(t, tsi, rebStageFin, resp, awaited)
        ret(ok, act, log, probed) == [ok |-> ok, act |-> act, log |-> log, probed |-> probed]
    IN  IF rebs[t].aborted THEN ret(FALSE, "", "abort wack", FALSE)
        ELSE IF isInStage(t, tsi, rebStageFin) THEN ret(TRUE, "", "", FALSE)
        ELSE IF c.ok THEN ret(TRUE, "", "", TRUE)
        ELSE IF c.act # "" THEN ret(FALSE, c.act, c.log, TRUE)
        \* tsi waits for ACKs, but not for mine
        ELSE IF t \notin c.status.Targets THEN ret(TRUE, "", "ok (not waiting for me)", TRUE)
        ELSE ret(FALSE, "", "keep wack", TRUE)

\* xreb.Abort: the round of t ends aborted
Abort(rb, t, log) ==
    IF rb[t].aborted THEN rb ELSE [rb EXCEPT ![t].aborted = TRUE, ![t].why = log]

\* abortAndBroadcast: the round of t ends aborted and the abort is sent to
\* every peer
abortAndBroadcast(rb, t, log) == [Abort(rb, t, log) EXCEPT ![t].bcast = TRUE]

\* the rounds after the target t did what its probe asks for
Acted(t, act, log) ==
    IF act = "abortAndBroadcast" THEN abortAndBroadcast(rebs, t, log)
    ELSE IF act = "Abort" THEN Abort(rebs, t, log)
    ELSE rebs

\* the peers of t: bcast goes over the targets of the Smap but t itself
Peers(t) == DOMAIN smap.Tmap \ {t}

\* the answers a probe of t can get from tsi
Probes(t) == [tsi : Peers(t), resp : HealthResults, awaited : {{}, {t}}]

RxReady(t) ==
    \E q \in Probes(t) :
        \E r \in {rxReady(t, q.tsi, q.resp, q.awaited)} :
            /\ rebs[t].rebID > 0
            /\ rebs' = Acted(t, r.act, r.log)
            /\ UNCHANGED <<wt, bc, mod, acc, xpro, smap, rmd, rebalance, inPrimaryTransition, nodeStarted,
                           clusterStarted, regpool, pending, ho, msNonPrimary, notifs,
                           exited, msync>>

WaitFinExtended(t) ==
    \E q \in Probes(t) :
        \E r \in {waitFinExtended(t, q.tsi, q.resp, q.awaited)} :
            /\ rebs[t].rebID > 0
            /\ rebs' = Acted(t, r.act, r.log)
            /\ UNCHANGED <<wt, bc, mod, acc, xpro, smap, rmd, rebalance, inPrimaryTransition, nodeStarted,
                           clusterStarted, regpool, pending, ho, msNonPrimary, notifs,
                           exited, msync>>

\* the target moves on to the next stage and pushes it; the push reaches the
\* peers in S, and a peer in another round drops it
ChangeStage(t) ==
    \E S \in SUBSET Peers(t) :
        /\ rebs[t].rebID > 0
        /\ ~rebs[t].aborted
        /\ rebs[t].stage < rebStageFin
        /\ rebs' = [q \in DOMAIN rebs |->
                     IF q = t THEN [rebs[q] EXCEPT !.stage = rebs[t].stage + 1]
                     ELSE IF q \in S /\ rebs[q].rebID = rebs[t].rebID
                     THEN [rebs[q] EXCEPT !.peers[t] = rebs[t].stage + 1]
                     ELSE rebs[q]]
        /\ UNCHANGED <<wt, bc, mod, acc, xpro, smap, rmd, rebalance, inPrimaryTransition, nodeStarted,
                       clusterStarted, regpool, pending, ho, msNonPrimary, notifs,
                       exited, msync>>

\* the round of the target is aborted from outside the coordinator: by the
\* user, or by the next round
AbortRound(t) ==
    /\ t \in DOMAIN smap.Tmap
    /\ rebs[t].rebID > 0
    /\ rebs' = Abort(rebs, t, "abort")
    /\ UNCHANGED <<wt, bc, mod, acc, xpro, smap, rmd, rebalance, inPrimaryTransition, nodeStarted,
                   clusterStarted, regpool, pending, ho, msNonPrimary, notifs,
                   exited, msync>>

\* the abort that a peer of the same round broadcast arrives at the target
ReceiveAbort(t) ==
    /\ t \in DOMAIN smap.Tmap
    /\ ~rebs[t].aborted
    /\ \E p \in Peers(t) :
          rebs[p].rebID = rebs[t].rebID /\ rebs[p].aborted /\ rebs[p].bcast
    /\ rebs' = Abort(rebs, t, "abort from peer")
    /\ UNCHANGED <<wt, bc, mod, acc, xpro, smap, rmd, rebalance, inPrimaryTransition, nodeStarted,
                   clusterStarted, regpool, pending, ho, msNonPrimary, notifs,
                   exited, msync>>

\* a target that keeps an aborted round when a newer RMD arrives
ReceiveRMD_stuck(t) ==
    /\ t \in DOMAIN smap.Tmap
    /\ rmd.Version > rebs[t].rebID
    /\ ~rebs[t].aborted
    /\ rebs' = [rebs EXCEPT ![t] = NewRound(rmd.Version)]
    /\ UNCHANGED <<wt, bc, mod, acc, xpro, smap, rmd, rebalance, inPrimaryTransition, nodeStarted,
                   clusterStarted, regpool, pending, ho, msNonPrimary, notifs,
                   exited, msync>>

\* a target that starts its round anew for the version it already runs
ReceiveRMD_again(t) ==
    /\ t \in DOMAIN smap.Tmap
    /\ rmd.Version >= rebs[t].rebID
    /\ rebs' = [rebs EXCEPT ![t] = NewRound(rmd.Version)]
    /\ UNCHANGED <<wt, bc, mod, acc, xpro, smap, rmd, rebalance, inPrimaryTransition, nodeStarted,
                   clusterStarted, regpool, pending, ho, msNonPrimary, notifs,
                   exited, msync>>

\* metasync delivers the RMD to the target: a newer version starts its round
ReceiveRMD(t) ==
    /\ t \in DOMAIN smap.Tmap
    /\ rmd.Version > rebs[t].rebID
    /\ rebs' = [rebs EXCEPT ![t] = NewRound(rmd.Version)]
    /\ UNCHANGED <<wt, bc, mod, acc, xpro, smap, rmd, rebalance, inPrimaryTransition, nodeStarted,
                   clusterStarted, regpool, pending, ho, msNonPrimary, notifs,
                   exited, msync>>

(***************************************************************************)
(* The callbacks of bcast, turn by turn: pingTarget, rxReady and           *)
(* waitFinExtended wait for one peer; time is counted in units of          *)
(* CplaneOperation.                                                        *)
(***************************************************************************)
CplaneOperation == 1
DestRetryTime == 4
KeepaliveRetryDuration == 1
MaxPings == 4

\* no callback is running; probes: the Health calls made, i: the loop
\* variable of pingTarget, ver: md.smap.Version, nver: the version of the
\* Smap that the node holds
NoCall ==
    [fn |-> "", t |-> "", tsi |-> "", pc |-> "idle", curwt |-> 0, probes |-> 0, i |-> 0,
     ok |-> FALSE, why |-> "", ver |-> 0, nver |-> 0]

\* the callback returns
Return(w, ok, why) == [w EXCEPT !.pc = "done", !.ok = ok, !.why = why]

\* what Health(tsi) gives to pingTarget: no error, an unreachable error,
\* another error
PingResults == {"ok", "unreachable", "error"}

\* pingTarget that tries once more
pingTarget_more(w, health) ==
    IF health = "ok" THEN Return([w EXCEPT !.probes = @ + 1], TRUE, "online")
    ELSE IF health = "error" THEN Return([w EXCEPT !.probes = @ + 1], FALSE, "health returned err")
    ELSE IF w.nver > w.ver
    THEN Return([w EXCEPT !.probes = @ + 1, !.curwt = @ + CplaneOperation], FALSE, "newer Smap")
    ELSE IF w.i + 1 >= MaxPings + 1
    THEN Return([w EXCEPT !.probes = @ + 1, !.i = @ + 1, !.curwt = @ + CplaneOperation],
                FALSE, "timed out")
    ELSE [w EXCEPT !.probes = @ + 1, !.i = @ + 1, !.curwt = @ + CplaneOperation]

\* one turn of the loop of pingTarget
pingTarget(w, health) ==
    IF health = "ok" THEN Return([w EXCEPT !.probes = @ + 1], TRUE, "online")
    ELSE IF health = "error" THEN Return([w EXCEPT !.probes = @ + 1], FALSE, "health returned err")
    ELSE IF w.nver > w.ver
    THEN Return([w EXCEPT !.probes = @ + 1, !.curwt = @ + CplaneOperation], FALSE, "newer Smap")
    ELSE IF w.i + 1 >= MaxPings
    THEN Return([w EXCEPT !.probes = @ + 1, !.i = @ + 1, !.curwt = @ + CplaneOperation],
                FALSE, "timed out")
    ELSE [w EXCEPT !.probes = @ + 1, !.i = @ + 1, !.curwt = @ + CplaneOperation]

\* rxReady that asks the peer whatever it pushed
rxReadyTop_ask(w, resp, awaited) ==
    LET c == checkGlobStatus(w.t, w.tsi, rebStageTraverse, resp, awaited)
    IN  IF c.ok THEN [w |-> Return([w EXCEPT !.probes = @ + 1], TRUE, "probe"),
                      act |-> c.act, log |-> c.log]
        ELSE [w |-> [w EXCEPT !.probes = @ + 1, !.pc = "sleep"], act |-> c.act, log |-> c.log]

\* rxReady from the top of its loop to the sleep: [w, act, log]
rxReadyTop(w, resp, awaited) ==
    LET c == checkGlobStatus(w.t, w.tsi, rebStageTraverse, resp, awaited)
    IN  IF isInStage(w.t, w.tsi, rebStageTraverse)
        THEN [w |-> Return(w, TRUE, "push"), act |-> "", log |-> ""]
        ELSE IF c.ok THEN [w |-> Return([w EXCEPT !.probes = @ + 1], TRUE, "probe"),
                           act |-> c.act, log |-> c.log]
        ELSE [w |-> [w EXCEPT !.probes = @ + 1, !.pc = "sleep"], act |-> c.act, log |-> c.log]

\* rxReady that does not count the time it waits
rxReadySleep_forever(w) ==
    IF rebs[w.t].aborted THEN Return(w, FALSE, "abort rx-ready") ELSE [w EXCEPT !.pc = "top"]

\* rxReady from xreb.AbortedAfter(sleep) to the test of the loop
rxReadySleep(w) ==
    IF rebs[w.t].aborted THEN Return(w, FALSE, "abort rx-ready")
    ELSE IF w.curwt + 2 * CplaneOperation >= DestRetryTime + DestRetryTime \div 2
    THEN Return([w EXCEPT !.curwt = @ + 2 * CplaneOperation], FALSE, "timed out")
    ELSE [w EXCEPT !.curwt = @ + 2 * CplaneOperation, !.pc = "top"]

\* waitFinExtended from xreb.AbortedAfter(sleep) to the probe
waitFinTop(w) ==
    IF rebs[w.t].aborted THEN Return(w, FALSE, "abort wack")
    ELSE IF isInStage(w.t, w.tsi, rebStageFin) THEN Return(w, TRUE, "push")
    ELSE [w EXCEPT !.curwt = @ + CplaneOperation, !.pc = "probe"]

\* waitFinExtended that succeeds for a peer at stage Fin only
waitFinProbe_strict(w, resp, awaited) ==
    LET c == checkGlobStatus(w.t, w.tsi, rebStageFin, resp, awaited)
        p == [w EXCEPT !.probes = @ + 1]
        ret(x) == [w |-> x, act |-> c.act, log |-> c.log]
    IN  IF c.ok THEN ret(Return(p, TRUE, "probe"))
        ELSE IF rebs[w.t].aborted \/ c.act # "" THEN ret(Return(p, FALSE, "abort wack"))
        ELSE IF p.curwt + KeepaliveRetryDuration >= DestRetryTime
        THEN ret(Return([p EXCEPT !.curwt = @ + KeepaliveRetryDuration], FALSE, "timed out"))
        ELSE ret([p EXCEPT !.curwt = @ + KeepaliveRetryDuration, !.pc = "top"])

\* waitFinExtended from the probe to the test of the loop: [w, act, log]
waitFinProbe(w, resp, awaited) ==
    LET c == checkGlobStatus(w.t, w.tsi, rebStageFin, resp, awaited)
        p == [w EXCEPT !.probes = @ + 1]
        ret(x) == [w |-> x, act |-> c.act, log |-> c.log]
    IN  IF c.ok THEN ret(Return(p, TRUE, "probe"))
        ELSE IF rebs[w.t].aborted \/ c.act # "" THEN ret(Return(p, FALSE, "abort wack"))
        ELSE IF w.t \notin c.status.Targets THEN ret(Return(p, TRUE, "not waiting for me"))
        ELSE IF p.curwt + KeepaliveRetryDuration >= DestRetryTime
        THEN ret(Return([p EXCEPT !.curwt = @ + KeepaliveRetryDuration], FALSE, "timed out"))
        ELSE ret([p EXCEPT !.curwt = @ + KeepaliveRetryDuration, !.pc = "top"])

\* the answers a probe of the running callback can get
CallProbes == [resp : HealthResults, awaited : {{}, {wt.t}}]

\* bcast calls cb(tsi, md) on the target t
CallStart(t) ==
    \E fn \in {"rxReady", "waitFinExtended"}, tsi \in Peers(t) :
        /\ t \in DOMAIN smap.Tmap
        /\ rebs[t].rebID > 0
        /\ wt.pc = "idle"
        /\ wt' = [NoCall EXCEPT !.fn = fn, !.t = t, !.tsi = tsi, !.pc = "top"]
        /\ UNCHANGED <<bc, mod, acc, xpro, smap, rmd, rebalance, inPrimaryTransition,
                       nodeStarted, clusterStarted, regpool, pending, ho, msNonPrimary,
                       notifs, exited, msync, rebs>>

\* bcast calls pingTarget(tsi, md) on the target t, which holds the Smap of md
PingStart(t) ==
    \E tsi \in Peers(t) :
        /\ t \in DOMAIN smap.Tmap
        /\ wt.pc = "idle"
        /\ wt' = [wt EXCEPT !.fn = "pingTarget", !.t = t, !.tsi = tsi, !.pc = "top",
                            !.ver = wt.nver]
        /\ UNCHANGED <<bc, mod, acc, xpro, smap, rmd, rebalance, inPrimaryTransition,
                       nodeStarted, clusterStarted, regpool, pending, ho, msNonPrimary,
                       notifs, exited, msync, rebs>>

\* metasync delivers a newer Smap to the node
ReceiveSmap ==
    /\ wt.nver < MaxSmapVersion
    /\ wt' = [wt EXCEPT !.nver = @ + 1]
    /\ UNCHANGED <<bc, mod, acc, xpro, smap, rmd, rebalance, inPrimaryTransition,
                   nodeStarted, clusterStarted, regpool, pending, ho, msNonPrimary,
                   notifs, exited, msync, rebs>>

PingWith(health) ==
    /\ wt.fn = "pingTarget"
    /\ wt.pc = "top"
    /\ wt' = pingTarget(wt, health)
    /\ UNCHANGED <<bc, mod, acc, xpro, smap, rmd, rebalance, inPrimaryTransition,
                   nodeStarted, clusterStarted, regpool, pending, ho, msNonPrimary,
                   notifs, exited, msync, rebs>>

PingTarget == \E health \in PingResults : PingWith(health)

\* the result of pingTarget reaches bcast
PingReturned ==
    /\ wt.fn = "pingTarget"
    /\ wt.pc = "done"
    /\ wt' = [NoCall EXCEPT !.nver = wt.nver]
    /\ UNCHANGED <<bc, mod, acc, xpro, smap, rmd, rebalance, inPrimaryTransition,
                   nodeStarted, clusterStarted, regpool, pending, ho, msNonPrimary,
                   notifs, exited, msync, rebs>>

RxReadyTop ==
    /\ wt.fn = "rxReady"
    /\ wt.pc = "top"
    /\ \E q \in CallProbes :
        \E r \in {rxReadyTop(wt, q.resp, q.awaited)} :
            /\ wt' = r.w
            /\ rebs' = Acted(wt.t, r.act, r.log)
    /\ UNCHANGED <<bc, mod, acc, xpro, smap, rmd, rebalance, inPrimaryTransition,
                   nodeStarted, clusterStarted, regpool, pending, ho, msNonPrimary,
                   notifs, exited, msync>>

RxReadySleep ==
    /\ wt.fn = "rxReady"
    /\ wt.pc = "sleep"
    /\ wt' = rxReadySleep(wt)
    /\ UNCHANGED <<bc, mod, acc, xpro, smap, rmd, rebalance, inPrimaryTransition,
                   nodeStarted, clusterStarted, regpool, pending, ho, msNonPrimary,
                   notifs, exited, msync, rebs>>

\* the caller of bcast(md, reb.rxReady) ends the round when a peer is not ready
rxReadyFailed(rb, w) == IF w.ok THEN rb ELSE Abort(rb, w.t, "rx-ready failed")

\* the result reaches the caller of bcast
CallReturned ==
    /\ wt.fn # "pingTarget"
    /\ wt.pc = "done"
    /\ wt' = NoCall
    /\ rebs' = (IF wt.fn = "rxReady" THEN rxReadyFailed(rebs, wt) ELSE rebs)
    /\ UNCHANGED <<bc, mod, acc, xpro, smap, rmd, rebalance, inPrimaryTransition,
                   nodeStarted, clusterStarted, regpool, pending, ho, msNonPrimary,
                   notifs, exited, msync>>

WaitFinTop ==
    /\ wt.fn = "waitFinExtended"
    /\ wt.pc = "top"
    /\ wt' = waitFinTop(wt)
    /\ UNCHANGED <<bc, mod, acc, xpro, smap, rmd, rebalance, inPrimaryTransition,
                   nodeStarted, clusterStarted, regpool, pending, ho, msNonPrimary,
                   notifs, exited, msync, rebs>>

WaitFinProbeWith(q) ==
    /\ wt.fn = "waitFinExtended"
    /\ wt.pc = "probe"
    /\ \E r \in {waitFinProbe(wt, q.resp, q.awaited)} :
            /\ wt' = r.w
            /\ rebs' = Acted(wt.t, r.act, r.log)
    /\ UNCHANGED <<bc, mod, acc, xpro, smap, rmd, rebalance, inPrimaryTransition,
                   nodeStarted, clusterStarted, regpool, pending, ho, msNonPrimary,
                   notifs, exited, msync>>

WaitFinProbe == \E q \in CallProbes : WaitFinProbeWith(q)

(***************************************************************************)
(* xs.XactDirPromote: the targets walk one shared directory.               *)
(***************************************************************************)
\* the entries of the directory args.SrcFQN
Files == {"f1", "f2"}
Dirs == {"d1"}
Entries == Files \cup Dirs

\* no xaction started; x[t]: the xaction of t (err: r.AddErr got an error;
\* gone: a Promote found its file missing), promoted[f]: the targets whose
\* Promote of f succeeded
NoPromote(fshare) ==
    [confirmedFshare |-> fshare,
     x |-> [t \in TargetIDs |->
              [st |-> "idle", smap |-> {}, left |-> {}, err |-> FALSE, gone |-> FALSE]],
     promoted |-> [f \in Files |-> {}]]

\* the order of the IDs and a hash of (target ID, name)
TIdx(t) == CHOOSE i \in 1 .. 3 : t = <<"t1", "t2", "t3">>[i]
FIdx(f) == CHOOSE i \in 1 .. 2 : f = <<"f1", "f2">>[i]
hrwHash(t, uname) == (TIdx(t) + 3 - FIdx(uname[2])) % 3

\* bck.MakeUname
MakeUname(objName) == <<"bck", objName>>

\* HrwName2T: the active target of the map with the highest hash, ties to
\* the lower ID; "" is the error for a map without active targets
HrwName2T(uname, active) ==
    IF active = {} THEN ""
    ELSE CHOOSE t \in active : \A u \in active \ {t} :
            \/ hrwHash(t, uname) > hrwHash(u, uname)
            \/ hrwHash(t, uname) = hrwHash(u, uname) /\ TIdx(t) < TIdx(u)

\* the outcomes of t.Promote
PromoteResults == {"ok", "notexist", "err"}

\* walk that promotes whatever it finds
walk_all(t, r, fshare, fqn, nameErr, res) ==
    IF fqn \in Dirs THEN [err |-> FALSE, called |-> FALSE]
    ELSE IF nameErr THEN [err |-> TRUE, called |-> FALSE]
    ELSE [err |-> res = "err", called |-> TRUE]

\* the callback of the walk for one entry: [err: it returns an error,
\* called: it called Promote]
walk(t, r, fshare, fqn, nameErr, res) ==
    LET si == HrwName2T(MakeUname(fqn), r.smap)
    IN  IF fqn \in Dirs THEN [err |-> FALSE, called |-> FALSE]
        ELSE IF nameErr THEN [err |-> TRUE, called |-> FALSE]
        ELSE IF fshare /\ si = "" THEN [err |-> TRUE, called |-> FALSE]
        ELSE IF fshare /\ si # t THEN [err |-> FALSE, called |-> FALSE]
        ELSE [err |-> res = "err", called |-> TRUE]

(***************************************************************************)
(* cmn: the access mask of a bucket.                                       *)
(***************************************************************************)
Masks == 0 .. (2 ^ AccessBits - 1)
allowAllAccess == 2 ^ AccessBits - 1
AllowAccess == "allow"
DenyAccess == "deny"

\* the operators |, & and ^ of Go on masks
RECURSIVE bitOr(_, _)
bitOr(a, b) ==
    IF a = 0 THEN b ELSE IF b = 0 THEN a
    ELSE (IF a % 2 = 1 \/ b % 2 = 1 THEN 1 ELSE 0) + 2 * bitOr(a \div 2, b \div 2)
RECURSIVE bitAnd(_, _)
bitAnd(a, b) ==
    IF a = 0 \/ b = 0 THEN 0
    ELSE (a % 2) * (b % 2) + 2 * bitAnd(a \div 2, b \div 2)
RECURSIVE bitXor(_, _)
bitXor(a, b) ==
    IF a = 0 THEN b ELSE IF b = 0 THEN a
    ELSE ((a + b) % 2) + 2 * bitXor(a \div 2, b \div 2)

\* ModifyAccess whose deny flips the bits
ModifyAccess_xor(aattr, action, bits) ==
    IF action = AllowAccess THEN [mask |-> bitOr(aattr, bits), err |-> ""]
    ELSE IF action # DenyAccess THEN [mask |-> 0, err |-> "unknown make-access action"]
    ELSE [mask |-> bitXor(aattr, bits), err |-> ""]

\* ModifyAccess that takes every action but allow for deny
ModifyAccess_lax(aattr, action, bits) ==
    IF action = AllowAccess THEN [mask |-> bitOr(aattr, bits), err |-> ""]
    ELSE [mask |-> bitAnd(aattr, bitXor(allowAllAccess, bits)), err |-> ""]

\* ModifyAccess: [mask, err]
ModifyAccess(aattr, action, bits) ==
    IF action = AllowAccess THEN [mask |-> bitOr(aattr, bits), err |-> ""]
    ELSE IF action # DenyAccess THEN [mask |-> 0, err |-> "unknown make-access action"]
    ELSE [mask |-> bitAnd(aattr, bitXor(allowAllAccess, bits)), err |-> ""]

\* the action strings of the callers
AccessActions == {AllowAccess, DenyAccess, "toggle", ""}

\* no call yet on the mask m; paction, pbits: the call before the latest
NoAccessCall(m) ==
    [aattr |-> m, action |-> "none", bits |-> 0, mask |-> m, err |-> "",
     paction |-> "none", pbits |-> 0]

\* a caller modifies the mask it holds; it keeps its mask when the call fails
ModifyAccessCall ==
    \E action \in AccessActions, bits \in Masks :
        \E cur \in {IF acc.err = "" THEN acc.mask ELSE acc.aattr} :
            \E r \in {ModifyAccess(cur, action, bits)} :
                /\ acc' = [aattr |-> cur, action |-> action, bits |-> bits,
                           mask |-> r.mask, err |-> r.err,
                           paction |-> acc.action, pbits |-> acc.bits]
                /\ UNCHANGED <<wt, bc, mod, smap, rmd, rebalance, inPrimaryTransition, nodeStarted,
                               clusterStarted, regpool, pending, ho, msNonPrimary, notifs,
                               exited, msync, rebs, xpro>>

(***************************************************************************)
(* The primary after construction: alone in its map, not yet started.      *)
(***************************************************************************)
NoNodes == [x \in {} |-> NoNode]

Init ==
    /\ smap = [Version |-> 1, UUID |-> ClusterUUID, Primary |-> Self,
               Pmap |-> MapPut(NoNodes, Self, [ep |-> SelfEp, flags |-> {}]),
               Tmap |-> NoNodes, IC |-> {Self}]
    /\ rmd = [Version |-> 1, TargetIDs |-> {}]
    /\ rebalance = FALSE
    /\ inPrimaryTransition = FALSE
    /\ nodeStarted = FALSE
    /\ clusterStarted = FALSE
    /\ regpool = <<>>
    /\ pending = EmptyBag
    /\ ho = [h \in HoThreads |-> [pc |-> "idle", psi |-> "", log |-> <<>>]]
    /\ msNonPrimary = FALSE
    /\ notifs = {}
    /\ exited = FALSE
    /\ msync = [smapV |-> 0, rmdV |-> 0, pairs |-> {}]
    /\ rebs = [t \in TargetIDs |-> NoRound]
    /\ xpro = NoPromote(FALSE)
    /\ acc = NoAccessCall(0)
    /\ mod = NoModify
    /\ bc = NoBcast("t1")
    /\ wt = NoCall

\* startup and joins: the primary from its construction on
Next ==
    \/ HttpCluPost(PostRequests)
    \/ UpdateAndDistribute
    \/ MarkNodeStarted
    \/ MarkClusterStarted

Spec == Init /\ [][Next]_vars

\* the requests of nodes that the Smap does not hold
FreshPosts == {q \in PostRequests : q.an = "none" /\ GetNode(smap, q.nsi.id) = NoNode}

\* joins that race: every request arrives while its node is not in the Smap,
\* the updates run later
NextJoin ==
    \/ HttpCluPost(FreshPosts)
    \/ UpdateAndDistribute
    \/ MarkNodeStarted
    \/ MarkClusterStarted

SpecJoin == Init /\ [][NextJoin]_vars

\* removals that arrive while the primary starts up
StartupDels == [sid : {"p2", "t1"}, intra : {FALSE}, cid : {""}]

NextStartup ==
    \/ HttpCluPost(FreshPosts)
    \/ UpdateAndDistribute
    \/ HttpCluDel(StartupDels)
    \/ UnregNode
    \/ MarkNodeStarted
    \/ MarkClusterStarted

SpecStartup == Init /\ [][NextStartup]_vars

\* keepalives only: of the nodes of the Smap and of nodes it does not hold
KalivePosts == {q \in PostRequests : q.kind = "keepalive" /\ q.an = "none"}

NextKalive ==
    \/ HttpCluPost(KalivePosts)
    \/ UpdateAndDistribute
    \/ MarkNodeStarted
    \/ MarkClusterStarted

SpecKalive == Init /\ [][NextKalive]_vars

(***************************************************************************)
(* The started cluster: p2, t1 and t2 joined while the primary started up. *)
(***************************************************************************)
ClusterMap ==
    [Version |-> 4, UUID |-> ClusterUUID, Primary |-> Self,
     Pmap |-> [x \in ProxyIDs |-> [ep |-> IF x = Self THEN SelfEp ELSE "A", flags |-> {}]],
     Tmap |-> [x \in {"t1", "t2"} |-> [ep |-> IF x = "t1" THEN "B" ELSE "C", flags |-> {}]],
     IC |-> ProxyIDs]

InitStarted ==
    /\ smap = ClusterMap
    /\ rmd = [Version |-> 1, TargetIDs |-> {}]
    /\ rebalance = FALSE
    /\ inPrimaryTransition = FALSE
    /\ nodeStarted = TRUE
    /\ clusterStarted = TRUE
    /\ regpool = <<>>
    /\ pending = EmptyBag
    /\ ho = [h \in HoThreads |-> [pc |-> "idle", psi |-> "", log |-> <<>>]]
    /\ msNonPrimary = FALSE
    /\ notifs = {}
    /\ exited = FALSE
    /\ msync = [smapV |-> 0, rmdV |-> 0, pairs |-> {}]
    /\ rebs = [t \in TargetIDs |-> NoRound]
    /\ xpro = NoPromote(FALSE)
    /\ acc = NoAccessCall(0)
    /\ mod = NoModify
    /\ bc = NoBcast("t1")
    /\ wt = NoCall

\* membership: joins, removals, maintenance and rebalance on the started primary
MemberPosts == [kind : {"join"}, nsi : JoinNodes, an : {"none"}, reb : {FALSE}, alive : {FALSE}]
MemberDels ==
    [sid : NodeIDs, intra : {FALSE}, cid : {""}]
    \cup [sid : {"t1"}, intra : {TRUE}, cid : {"t1", "t2"}]
MemberRms ==
    [action : {ActStartMaintenance, ActDecommission}, sid : {"p1", "p2", "t1"},
     skipRebalance : BOOLEAN]
MemberStops == [sid : {"p2", "t1"}, skipReb : BOOLEAN]

NextMember ==
    \/ HttpCluPost(MemberPosts)
    \/ UpdateAndDistribute
    \/ HttpCluDel(MemberDels)
    \/ UnregNode
    \/ RmNode(MemberRms)
    \/ StopMaintenance(MemberStops)
    \/ CancelMaintenance

SpecMember == InitStarted /\ [][NextMember]_vars

\* handover: the primary hands over while requests of every kind are under way
HandoverPosts ==
    [kind : {"keepalive", "join"}, nsi : {n \in JoinNodes : n.id = "t1"}, an : {"none"},
     reb : {FALSE}, alive : BOOLEAN]
HandoverDels == [sid : {"t1", "p2"}, intra : {FALSE}, cid : {""}]
HandoverRms == [action : {ActStartMaintenance}, sid : {"t2"}, skipRebalance : {TRUE}]
HandoverStops == [sid : {"t2"}, skipReb : BOOLEAN]

NextHandover ==
    \/ HttpCluPost(HandoverPosts)
    \/ UpdateAndDistribute
    \/ HttpCluDel(HandoverDels)
    \/ UnregNode
    \/ RmNode(HandoverRms)
    \/ StopMaintenance(HandoverStops)
    \/ CancelMaintenance
    \/ \E h \in HoThreads : CluSetPrimaryPrepare(h)
    \/ \E h \in HoThreads : CluSetPrimaryPre(h)
    \/ \E h \in HoThreads : CluSetPrimaryInstall(h)
    \/ \E h \in HoThreads : CluSetPrimaryCommit(h)

SpecHandover == InitStarted /\ [][NextHandover]_vars

(***************************************************************************)
(* Maintenance with rebalance: a started cluster of three targets, so that *)
(* two stay active when one is taken out.                                  *)
(***************************************************************************)
ClusterMap3 ==
    [ClusterMap EXCEPT !.Tmap = MapPut(ClusterMap.Tmap, "t3", [ep |-> "D", flags |-> {}]),
                       !.Version = 3]

InitRebalance ==
    /\ smap = ClusterMap3
    /\ rmd = [Version |-> 1, TargetIDs |-> {}]
    /\ rebalance = FALSE
    /\ inPrimaryTransition = FALSE
    /\ nodeStarted = TRUE
    /\ clusterStarted = TRUE
    /\ regpool = <<>>
    /\ pending = EmptyBag
    /\ ho = [h \in HoThreads |-> [pc |-> "idle", psi |-> "", log |-> <<>>]]
    /\ msNonPrimary = FALSE
    /\ notifs = {}
    /\ exited = FALSE
    /\ msync = [smapV |-> 0, rmdV |-> 0, pairs |-> {}]
    /\ rebs = [t \in TargetIDs |-> NoRound]
    /\ xpro = NoPromote(FALSE)
    /\ acc = NoAccessCall(0)
    /\ mod = NoModify
    /\ bc = NoBcast("t1")
    /\ wt = NoCall

RebalanceRms ==
    [action : {ActStartMaintenance, ActDecommission, ActShutdownNode},
     sid : {"t1", "t2", "t3"}, skipRebalance : BOOLEAN]

NextRebalance ==
    \/ RmNode(RebalanceRms)
    \/ RebalanceCluster
    \/ RebalanceDone
    \/ UnregNode

SpecRebalance == InitRebalance /\ [][NextRebalance]_vars

(***************************************************************************)
(* The rounds of the targets: round 1 runs on the targets of the map, the  *)
(* primary may issue the next RMD at any time.                             *)
(***************************************************************************)
InitReb ==
    /\ smap = ClusterMap
    /\ rmd = [Version |-> 1, TargetIDs |-> {}]
    /\ rebalance = FALSE
    /\ inPrimaryTransition = FALSE
    /\ nodeStarted = TRUE
    /\ clusterStarted = TRUE
    /\ regpool = <<>>
    /\ pending = EmptyBag
    /\ ho = [h \in HoThreads |-> [pc |-> "idle", psi |-> "", log |-> <<>>]]
    /\ msNonPrimary = FALSE
    /\ notifs = {}
    /\ exited = FALSE
    /\ msync = [smapV |-> 0, rmdV |-> 0, pairs |-> {}]
    /\ rebs = [t \in TargetIDs |-> IF t \in DOMAIN ClusterMap.Tmap THEN NewRound(1) ELSE NoRound]
    /\ xpro = NoPromote(FALSE)
    /\ acc = NoAccessCall(0)
    /\ mod = NoModify
    /\ bc = NoBcast("t1")
    /\ wt = NoCall

NextReb ==
    \/ RebalanceCluster
    \/ \E t \in TargetIDs : ReceiveRMD(t)
    \/ \E t \in TargetIDs : ReceiveAbort(t)
    \/ \E t \in TargetIDs : ChangeStage(t)
    \/ \E t \in TargetIDs : RxReady(t)
    \/ \E t \in TargetIDs : WaitFinExtended(t)

SpecReb == InitReb /\ [][NextReb]_vars

(***************************************************************************)
(* The promote of a shared directory on the three targets.                 *)
(***************************************************************************)
\* the Smaps that a target can hold when its xaction starts: the current one,
\* or the one before t1 went into maintenance
LocalSmaps ==
    {ClusterMap3,
     [ClusterMap3 EXCEPT !.Tmap["t1"].flags = {SnodeMaintenance}, !.Version = 4]}

\* Run up to the walk: r.smap = r.p.T.Sowner().Get()
Run(t) ==
    /\ xpro.x[t].st = "idle"
    /\ \E m \in LocalSmaps :
         xpro' = [xpro EXCEPT !.x[t] = [st |-> "walking", smap |-> ActiveTargets(m),
                                         left |-> Entries, err |-> FALSE, gone |-> FALSE]]
    /\ UNCHANGED <<wt, bc, mod, acc, smap, rmd, rebalance, inPrimaryTransition, nodeStarted,
                   clusterStarted, regpool, pending, ho, msNonPrimary, notifs,
                   exited, msync, rebs>>

\* the walk calls back for the next entry; an error ends the walk, and so
\* does the last entry: r.AddErr(err), r.Finish()
Walk(t) ==
    /\ xpro.x[t].st = "walking"
    /\ \E fqn \in xpro.x[t].left, nameErr \in BOOLEAN, res \in PromoteResults :
        \E w \in {walk(t, xpro.x[t], xpro.confirmedFshare, fqn, nameErr, res)} :
            /\ xpro' = [xpro EXCEPT
                 !.x[t].left = @ \ {fqn},
                 !.x[t].err = w.err,
                 !.x[t].gone = @ \/ (w.called /\ res = "notexist"),
                 !.x[t].st = IF w.err \/ xpro.x[t].left = {fqn} THEN "done" ELSE "walking",
                 !.promoted = IF w.called /\ res = "ok"
                              THEN [@ EXCEPT ![fqn] = @ \cup {t}] ELSE @]
    /\ UNCHANGED <<wt, bc, mod, acc, smap, rmd, rebalance, inPrimaryTransition, nodeStarted,
                   clusterStarted, regpool, pending, ho, msNonPrimary, notifs,
                   exited, msync, rebs>>

InitPromote ==
    /\ smap = ClusterMap3
    /\ rmd = [Version |-> 1, TargetIDs |-> {}]
    /\ rebalance = FALSE
    /\ inPrimaryTransition = FALSE
    /\ nodeStarted = TRUE
    /\ clusterStarted = TRUE
    /\ regpool = <<>>
    /\ pending = EmptyBag
    /\ ho = [h \in HoThreads |-> [pc |-> "idle", psi |-> "", log |-> <<>>]]
    /\ msNonPrimary = FALSE
    /\ notifs = {}
    /\ exited = FALSE
    /\ msync = [smapV |-> 0, rmdV |-> 0, pairs |-> {}]
    /\ rebs = [t \in TargetIDs |-> NoRound]
    /\ xpro \in {NoPromote(v) : v \in BOOLEAN}
    /\ acc = NoAccessCall(0)
    /\ mod = NoModify
    /\ bc = NoBcast("t1")
    /\ wt = NoCall

NextPromote ==
    \/ \E t \in TargetIDs : Run(t)
    \/ \E t \in TargetIDs : Walk(t)

SpecPromote == InitPromote /\ [][NextPromote]_vars

(***************************************************************************)
(* Smap.modify phase by phase: lock, clone, pre and install; post under    *)
(* the lock; unlock and final.  Other handlers run between the phases.     *)
(***************************************************************************)
\* the smapModifier of the request t
modCtx(t) ==
    IF t.verb = "upd"
    THEN Ctx([id |-> t.id, ep |-> t.ep], t.id, {}, FALSE, "")
    ELSE Ctx(NoSI, t.id, {}, t.skipReb, "")
\* ctx.pre(ctx, clone)
modPre(t) ==
    IF t.verb = "upd" THEN _updPre(modCtx(t), smap) ELSE _unregNodePre(modCtx(t), smap)
\* ctx.post(ctx, clone), with the installed clone
modPost(m) ==
    IF m.verb = "upd" THEN _updPost(m.ctx, smap, rmd) ELSE _perfRebPost(m.ctx, smap, rmd)
\* ctx.final(ctx, clone), with ctx.rmd as post left it
modFinal(m) ==
    IF m.verb = "upd" THEN _updFinal(m.ctx, smap, m.rmd, notifs)
    ELSE _syncFinal(m.ctx, smap, m.rmd, notifs)

\* the lock is taken, pre runs on the clone, the clone is installed iff pre
\* returned no error; with an error the lock is released at once
ModifyInstall ==
    \E t \in BagToSet(pending) :
        \E p \in {modPre(t)} :
            /\ ~exited
            /\ t.verb \in {"upd", "unreg"}
            /\ LockFree
            /\ smap.Version < MaxSmapVersion
            /\ pending' = pending (-) SetToBag({t})
            /\ smap' = (IF p.err = "" THEN smapInstall(smap, p.clone) ELSE smap)
            /\ mod' = (IF p.err = ""
                       THEN [pc |-> "installed", verb |-> t.verb, ctx |-> p.ctx, rmd |-> rmd,
                             ver |-> smap.Version]
                       ELSE NoModify)
            /\ UNCHANGED <<wt, bc, rmd, rebalance, inPrimaryTransition, nodeStarted, clusterStarted,
                           regpool, ho, msNonPrimary, notifs, exited, msync, rebs, xpro, acc>>

\* post, under the lock: the chained RMD.modify
ModifyPost ==
    /\ mod.pc = "installed"
    /\ \E q \in {modPost(mod)} :
        /\ q.rmd.Version <= MaxRMDVersion
        /\ rmd' = q.rmd
        /\ mod' = [mod EXCEPT !.pc = "posted", !.ctx = q.ctx, !.rmd = q.rmd]
        /\ UNCHANGED <<wt, bc, smap, rebalance, inPrimaryTransition, nodeStarted, clusterStarted,
                       regpool, pending, ho, msNonPrimary, notifs, exited, msync, rebs,
                       xpro, acc>>

\* the lock is released and final runs
ModifyFinal ==
    /\ mod.pc = "posted"
    /\ \E f \in {modFinal(mod)} :
        /\ notifs' = f.notifs
        /\ msync' = Synced(f, smap, mod.rmd)
        /\ mod' = NoModify
        /\ UNCHANGED <<wt, bc, smap, rmd, rebalance, inPrimaryTransition, nodeStarted, clusterStarted,
                       regpool, pending, ho, msNonPrimary, exited, rebs, xpro, acc>>

NextModify ==
    \/ HttpCluPost(MemberPosts)
    \/ HttpCluDel(MemberDels)
    \/ ModifyInstall
    \/ ModifyPost
    \/ ModifyFinal
    \/ RebalanceCluster
    \/ \E h \in HoThreads : CluSetPrimaryPrepare(h)
    \/ \E h \in HoThreads : CluSetPrimaryPre(h)
    \/ \E h \in HoThreads : CluSetPrimaryInstall(h)
    \/ \E h \in HoThreads : CluSetPrimaryCommit(h)

SpecModify == InitStarted /\ [][NextModify]_vars

(***************************************************************************)
(* Reb.bcast: one goroutine per peer, admitted by a wait group that is     *)
(* limited to MaxBcastParallel.                                            *)
(***************************************************************************)
MaxBcastParallel == 2

ClusterMap4 ==
    [ClusterMap3 EXCEPT !.Tmap = MapPut(ClusterMap3.Tmap, "t4", [ep |-> "A", flags |-> {}])]

BcastSmaps == {ClusterMap3, ClusterMap4}
\* the loop skips the local target
bcastSkip(b, tsi) == tsi = b.sid

\* the goroutine counts every return of cb
bcastReturn_all(b, tsi, ok) ==
    [b EXCEPT !.ret[tsi] = (IF ok THEN "true" ELSE "false"), !.cnt = @ + 1, !.incb = @ \ {tsi}, !.wg = @ \ {tsi}]

\* cb has returned ok: cnt.Inc() on false, wg.Done()
bcastReturn(b, tsi, ok) ==
    [b EXCEPT !.ret[tsi] = (IF ok THEN "true" ELSE "false"),
              !.cnt = IF ok THEN @ ELSE @ + 1,
              !.incb = @ \ {tsi},
              !.wg = @ \ {tsi}]

\* bcast(md, cb) is entered
BcastStart ==
    \E m \in BcastSmaps :
        /\ bc.pc \in {"idle", "done"}
        /\ bc.sid \in DOMAIN m.Tmap
        /\ bc' = [NoBcast(bc.sid) EXCEPT !.pc = "loop", !.tmap = DOMAIN m.Tmap,
                                         !.todo = DOMAIN m.Tmap]
        /\ UNCHANGED <<wt, smap, rmd, rebalance, inPrimaryTransition, nodeStarted,
                       clusterStarted, regpool, pending, ho, msNonPrimary, notifs, exited,
                       msync, rebs, xpro, acc, mod>>

\* one turn of the range over md.smap.Tmap: continue, or wg.Add(1) and go
BcastLoop ==
    \E tsi \in bc.todo :
        /\ bc.pc = "loop"
        /\ bcastSkip(bc, tsi) \/ Cardinality(bc.wg) < MaxBcastParallel
        /\ bc' = (IF bcastSkip(bc, tsi)
                  THEN [bc EXCEPT !.todo = @ \ {tsi}]
                  ELSE [bc EXCEPT !.todo = @ \ {tsi}, !.wg = @ \cup {tsi}])
        /\ UNCHANGED <<wt, smap, rmd, rebalance, inPrimaryTransition, nodeStarted,
                       clusterStarted, regpool, pending, ho, msNonPrimary, notifs, exited,
                       msync, rebs, xpro, acc, mod>>

\* a goroutine calls cb(tsi, md)
BcastCall ==
    \E tsi \in bc.wg \ bc.incb :
        /\ bc.ret[tsi] = "none"
        /\ bc' = [bc EXCEPT !.called[tsi] = @ + 1,
                            !.incb = @ \cup {tsi},
                            !.peak = IF Cardinality(bc.incb) + 1 > @
                                     THEN Cardinality(bc.incb) + 1 ELSE @]
        /\ UNCHANGED <<wt, smap, rmd, rebalance, inPrimaryTransition, nodeStarted,
                       clusterStarted, regpool, pending, ho, msNonPrimary, notifs, exited,
                       msync, rebs, xpro, acc, mod>>

\* cb returns in a goroutine
BcastReturn ==
    \E tsi \in bc.incb, ok \in BOOLEAN :
        /\ bc' = bcastReturn(bc, tsi, ok)
        /\ UNCHANGED <<wt, smap, rmd, rebalance, inPrimaryTransition, nodeStarted,
                       clusterStarted, regpool, pending, ho, msNonPrimary, notifs, exited,
                       msync, rebs, xpro, acc, mod>>

\* the range is over and wg.Wait() returns: errCnt = int(cnt.Load())
BcastWait ==
    /\ bc.pc = "loop"
    /\ bc.todo = {}
    /\ bc.wg = {}
    /\ bc' = [bc EXCEPT !.pc = "done", !.errCnt = bc.cnt]
    /\ UNCHANGED <<wt, smap, rmd, rebalance, inPrimaryTransition, nodeStarted,
                   clusterStarted, regpool, pending, ho, msNonPrimary, notifs, exited,
                   msync, rebs, xpro, acc, mod>>

InitBcast ==
    /\ smap = ClusterMap3
    /\ rmd = [Version |-> 1, TargetIDs |-> {}]
    /\ rebalance = FALSE
    /\ inPrimaryTransition = FALSE
    /\ nodeStarted = TRUE
    /\ clusterStarted = TRUE
    /\ regpool = <<>>
    /\ pending = EmptyBag
    /\ ho = [h \in HoThreads |-> [pc |-> "idle", psi |-> "", log |-> <<>>]]
    /\ msNonPrimary = FALSE
    /\ notifs = {}
    /\ exited = FALSE
    /\ msync = [smapV |-> 0, rmdV |-> 0, pairs |-> {}]
    /\ rebs = [t \in TargetIDs |-> NoRound]
    /\ xpro = NoPromote(FALSE)
    /\ acc = NoAccessCall(0)
    /\ mod = NoModify
    /\ bc \in {NoBcast(sid) : sid \in BcastTargets}
    /\ wt = NoCall

NextBcast ==
    \/ BcastStart
    \/ BcastLoop
    \/ BcastCall
    \/ BcastReturn
    \/ BcastWait

SpecBcast == InitBcast /\ [][NextBcast]_vars

(***************************************************************************)
(* Calls of ModifyAccess on every mask.                                    *)
(***************************************************************************)
InitAccess ==
    /\ smap = ClusterMap
    /\ rmd = [Version |-> 1, TargetIDs |-> {}]
    /\ rebalance = FALSE
    /\ inPrimaryTransition = FALSE
    /\ nodeStarted = TRUE
    /\ clusterStarted = TRUE
    /\ regpool = <<>>
    /\ pending = EmptyBag
    /\ ho = [h \in HoThreads |-> [pc |-> "idle", psi |-> "", log |-> <<>>]]
    /\ msNonPrimary = FALSE
    /\ notifs = {}
    /\ exited = FALSE
    /\ msync = [smapV |-> 0, rmdV |-> 0, pairs |-> {}]
    /\ rebs = [t \in TargetIDs |-> NoRound]
    /\ xpro = NoPromote(FALSE)
    /\ acc \in {NoAccessCall(m) : m \in Masks}
    /\ mod = NoModify
    /\ bc = NoBcast("t1")
    /\ wt = NoCall

NextAccess == ModifyAccessCall

SpecAccess == InitAccess /\ [][NextAccess]_vars

\* the rounds with one callback of bcast at a time; the target that runs a
\* callback starts its next round after the callback has returned
NextWait ==
    \/ RebalanceCluster
    \/ \E t \in TargetIDs : wt.t # t /\ ReceiveRMD(t)
    \/ \E t \in TargetIDs : ReceiveAbort(t)
    \/ \E t \in TargetIDs : ChangeStage(t)
    \/ \E t \in TargetIDs : CallStart(t)
    \/ RxReadyTop
    \/ RxReadySleep
    \/ WaitFinTop
    \/ WaitFinProbe
    \/ CallReturned

SpecWait == InitReb /\ [][NextWait]_vars

\* pingTarget while Smaps arrive at the node
InitPing ==
    /\ smap = ClusterMap3
    /\ rmd = [Version |-> 1, TargetIDs |-> {}]
    /\ rebalance = FALSE
    /\ inPrimaryTransition = FALSE
    /\ nodeStarted = TRUE
    /\ clusterStarted = TRUE
    /\ regpool = <<>>
    /\ pending = EmptyBag
    /\ ho = [h \in HoThreads |-> [pc |-> "idle", psi |-> "", log |-> <<>>]]
    /\ msNonPrimary = FALSE
    /\ notifs = {}
    /\ exited = FALSE
    /\ msync = [smapV |-> 0, rmdV |-> 0, pairs |-> {}]
    /\ rebs = [t \in TargetIDs |-> NewRound(rmd.Version)]
    /\ xpro = NoPromote(FALSE)
    /\ acc = NoAccessCall(0)
    /\ mod = NoModify
    /\ bc = NoBcast("t1")
    /\ wt = [NoCall EXCEPT !.nver = smap.Version]

NextPing ==
    \/ \E t \in TargetIDs : PingStart(t)
    \/ PingTarget
    \/ PingReturned
    \/ ReceiveSmap
    \/ \E t \in TargetIDs : AbortRound(t)

SpecPing == InitPing /\ [][NextPing]_vars

\* a running callback is scheduled, and so is its caller
SpecWaitFair ==
    SpecWait /\ WF_vars(RxReadyTop) /\ WF_vars(RxReadySleep)
             /\ WF_vars(WaitFinTop) /\ WF_vars(WaitFinProbe) /\ WF_vars(CallReturned)

\* metasync delivers every RMD version to every target in the end
SpecRebFair == SpecReb /\ \A t \in TargetIDs : WF_vars(ReceiveRMD(t))

(***************************************************************************)
(* Properties.                                                             *)
(***************************************************************************)
\* C1: in every installed Smap the Primary is one of the Proxies and no node
\* ID is both a proxy and a target (as the claim states it, for every
\* sequence of requests that includes DELETE /v1/cluster/daemon/{id}).
C1_PrimaryAmongProxies ==
    /\ smap.Primary \in DOMAIN smap.Pmap
    /\ DOMAIN smap.Pmap \cap DOMAIN smap.Tmap = {}

Modify(t) ==
    IF t.verb = "upd" THEN updateAndDistribute([id |-> t.id, ep |-> t.ep], "", {})
    ELSE IF t.verb = "unreg" THEN unregNode("", t.id, t.skipReb)
    ELSE cancelMaintenance(t.id, t.skipReb)

\* the cases in which the pre callback of the request's modify returns an error
PreFails(t) ==
    \/ ~isPrimary(smap, Self)
    \/ t.verb = "unreg" /\ GetNode(smap, t.id) = NoNode

\* C3: a Smap.modify whose pre callback returns an error (this proxy is not
\* the primary, or the node to remove is not in the map) replaces neither the
\* Smap nor the RMD, registers no listener and hands nothing to the metasyncer.
C3_PreErrorInstallsNothing ==
    [][ \A t \in BagToSet(pending) :
          (pending' = pending (-) SetToBag({t}) /\ PreFails(t))
            => (smap' = smap /\ rmd' = rmd /\ notifs' = notifs /\ msync' = msync) ]_vars

\* a stop-maintenance reaches its modify on a proxy that has handed over, and
\* the modify answers with the error
C3_Witness ==
    \E t \in BagToSet(pending) :
        /\ t.verb = "cancel"
        /\ ~isPrimary(smap, Self)
        /\ LockFree
        /\ Modify(t).err = "not primary"
        /\ Modify(t).smap = smap

\* C4: when a node answers the prepare broadcast of a handover with an error,
\* the handler stops there: it does not go on to set inPrimaryTransition, to
\* call becomeNonPrimary or to broadcast the commit, and its error names the
\* node whose answer it read first.
C4_PrepareErrorStops ==
    \A proxyid \in ProxyIDs, failed \in SUBSET BcastNodes(smap) :
        \A first \in failed :
            LET r == cluSetPrimary(proxyid, failed, first)
            IN  Has(r.ev, "bcast prepare")
                    => /\ ~r.go
                       /\ r.err = "prepare phase"
                       /\ r.node = first
                       /\ r.ev = <<"bcast prepare">>

\* a handover to p2 is asked for while a request is under way, and a node
\* fails the prepare broadcast: the handler answers with the error
C4_Witness ==
    /\ \A h \in HoThreads : ho[h].pc = "idle"
    /\ pending # EmptyBag
    /\ ~inPrimaryTransition
    /\ ~msNonPrimary
    /\ cluSetPrimary("p2", {"t1"}, "t1").err = "prepare phase"
    /\ cluSetPrimary("p2", {"t1"}, "t1").node = "t1"

IsPrefix(a, b) == Len(a) <= Len(b) /\ a = SubSeq(b, 1, Len(a))

\* C5 (as the claim states it): flag, install of the new Primary,
\* becomeNonPrimary, commit broadcast, in this order; so the metasyncer has
\* become non-primary only when the installed Smap names another primary.
C5_InstallBeforeNonPrimary ==
    /\ \A h \in HoThreads :
           IsPrefix(ho[h].log, <<"flag", "install", "becomeNonPrimary", "commit">>)
    /\ msNonPrimary => ~isPrimary(smap, Self)

\* C5 (amended): the in-transition flag is set, then becomeNonPrimary is called
\* by the pre callback of Smap.modify, then the Smap with the new Primary is
\* installed, then the commit is broadcast; the commit broadcast is never sent
\* before the Smap with the new Primary is installed.
C5_CommitOrder ==
    \A h \in HoThreads :
        /\ IsPrefix(ho[h].log, <<"flag", "becomeNonPrimary", "install", "commit">>)
        /\ ho[h].pc = "inpre" => msNonPrimary
        /\ ho[h].pc = "installed" => msNonPrimary /\ smap.Primary = ho[h].psi
        /\ Has(ho[h].log, "commit") => msNonPrimary /\ ~isPrimary(smap, Self)

\* a handover to p2 ran to its end
C5_Witness ==
    \E h \in HoThreads :
        /\ ho[h].log = <<"flag", "becomeNonPrimary", "install", "commit">>
        /\ smap.Primary = "p2"
        /\ ~inPrimaryTransition

\* C6: while inPrimaryTransition is set, a keepalive is dropped: the handler
\* answers without an error, forwards nothing, leaves the Smap as it is,
\* starts no update (so the RMD stays as it is) and does not refresh the
\* keepalive tracker.
C6_KeepaliveDropped ==
    inPrimaryTransition =>
        \A q \in PostRequests :
            q.kind = "keepalive" =>
                LET r == post(q)
                IN  /\ r.err = ""
                    /\ r.ev = <<>>
                    /\ r.smap = smap
                    /\ r.task = NoTask
                    /\ ~r.heardFrom
                    /\ r.rebalance = rebalance
                    /\ r.regpool = regpool

\* the flag is set, this proxy is still the primary and knows t1 at the
\* endpoint of the keepalive that arrives: the keepalive is dropped
C6_Witness ==
    /\ inPrimaryTransition
    /\ isPrimary(smap, Self)
    /\ \E q \in PostRequests :
          /\ q.kind = "keepalive" /\ q.an = "none"
          /\ GetNode(smap, q.nsi.id) # NoNode
          /\ Equals(GetNode(smap, q.nsi.id), q.nsi)
          /\ post(q).ev = <<>>
          /\ httpclupost_nodrop("keepalive", q.nsi, ClusterUUID, ClusterUUID, FALSE, TRUE, TRUE,
                                 TRUE, FALSE).heardFrom

\* the self-registers of a node whose ID the map holds with other endpoints
DupIDJoins ==
    {q \in PostRequests :
        /\ q.kind = "join" /\ q.an = "none"
        /\ GetNode(smap, q.nsi.id) # NoNode
        /\ ~Equals(GetNode(smap, q.nsi.id), q.nsi)}

IntegrityErrors ==
    {q \in PostRequests :
        \/ q.kind # "user-register" /\ q.an = "smap uuid"
        \/ /\ q.an = "none" /\ q.alive
           /\ GetNode(smap, q.nsi.id) # NoNode
           /\ ~Equals(GetNode(smap, q.nsi.id), q.nsi)}

\* C8 (as the claim states it): a join or keepalive that carries a
\* cluster-integrity error is answered with an error and changes nothing.
C8_IntegrityErrorAnswered ==
    \A q \in IntegrityErrors :
        LET r == post(q)
        IN  r.err # "" /\ r.smap = smap /\ r.task = NoTask

\* the keepalives of a node that the map holds with the same endpoints
SameKeepalives ==
    {q \in PostRequests :
        /\ q.kind = "keepalive"
        /\ GetNode(smap, q.nsi.id) # NoNode
        /\ Equals(GetNode(smap, q.nsi.id), q.nsi)}

\* C9: a keepalive of a node that the Smap holds with the same ID and
\* endpoints leaves the Smap as it is and starts no update, so neither the
\* Smap version nor the RMD version changes, whatever came before it.
C9_KeepaliveIdempotent ==
    \A q \in SameKeepalives :
        LET r == post(q)
        IN  /\ r.smap = smap
            /\ r.smap.Version = smap.Version
            /\ r.task = NoTask
            /\ r.regpool = regpool

\* the started primary refreshes the tracker for t1 and does nothing else
C9_Witness ==
    /\ clusterStarted
    /\ smap.Version > 1
    /\ \E q \in SameKeepalives :
          /\ q.an = "none"
          /\ post(q).heardFrom
          /\ post(q).err = ""
          /\ post(q).smap = smap

\* the RMD versions a request's Smap.modify adds
RMDIncrement(t) == Modify(t).rmd.Version - rmd.Version

\* C10 (as the claim states it): the modify of a join, a removal or a
\* stop-maintenance increments the RMD version, by one, iff
\* requiresRebalance(previous Smap, new Smap) and the caller passed no skipReb.
C10_IncrementIffRequired ==
    \A t \in BagToSet(pending) :
        /\ RMDIncrement(t) \in {0, 1}
        /\ RMDIncrement(t) = 1 <=> (~t.skipReb /\ requiresRebalance(smap, Modify(t).smap))

\* C10 (amended): the modify of a removal or a stop-maintenance increments
\* the RMD version, by one, iff requiresRebalance(previous, new) and no
\* skipReb; the modify of a join increments it iff the node is a target and
\* either its ID was in the Smap already or requiresRebalance(previous, new);
\* a modify whose pre callback fails never does.
C10_IncrementRule ==
    \A t \in BagToSet(pending) :
        LET r == Modify(t)
        IN  /\ RMDIncrement(t) \in {0, 1}
            /\ r.err # "" => RMDIncrement(t) = 0
            /\ r.err = "" /\ t.verb = "upd"
                  => (RMDIncrement(t) = 1
                        <=> /\ IsTarget(t.id)
                            /\ (GetNode(smap, t.id) # NoNode \/ requiresRebalance(smap, r.smap)))
            /\ r.err = "" /\ t.verb # "upd"
                  => (RMDIncrement(t) = 1
                        <=> (~t.skipReb /\ requiresRebalance(smap, r.smap)))

\* a target that is in the map joins again with the endpoints the map has: its
\* modify changes no active target and increments the RMD
C10_Witness ==
    \E t \in BagToSet(pending) :
        /\ t.verb = "upd"
        /\ IsTarget(t.id)
        /\ GetNode(smap, t.id) = [ep |-> t.ep, flags |-> {}]
        /\ ~requiresRebalance(smap, Modify(t).smap)
        /\ RMDIncrement(t) = 1

\* how often a handler took the step x
Count(ev, x) == Cardinality({i \in DOMAIN ev : ev[i] = x})

\* the step that runs the Smap.modify of the queued request t
ModifyStep(t) == t \in BagToSet(pending) /\ pending' = pending (-) SetToBag({t})

\* C11: when the started primary runs the update of a self-registered target
\* that its Smap does not hold, the Smap version grows and the target is in
\* Tmap, the RMD goes from r to r+1, exactly one metasync batch is issued, it
\* carries the new Smap and RMD r+1 and goes to the nodes of the new Smap,
\* the new target among them, and the rebalance ID of the join (the xactID of
\* updateAndDistribute, the UUID of the registered listener) is r+1.
C11_TargetJoinRebalances ==
    [][ \A t \in BagToSet(pending) :
          ( /\ ModifyStep(t)
            /\ t.verb = "upd" /\ IsTarget(t.id)
            /\ clusterStarted
            /\ GetNode(smap, t.id) = NoNode
            /\ ~PreFails(t) )
          => /\ smap'.Version > smap.Version
             /\ t.id \in DOMAIN smap'.Tmap
             /\ GetNode(smap', t.id).ep = t.ep
             /\ rmd'.Version = rmd.Version + 1
             /\ Count(Modify(t).ev, "sync") = 1
             /\ msync'.smapV = smap'.Version
             /\ msync'.rmdV = rmd.Version + 1
             /\ {"smap", "rmd"} \subseteq msync'.pairs
             /\ t.id \in BcastNodes(smap')
             /\ updXactID(Modify(t)) = rmd.Version + 1
             /\ NewXactNL(rmd', "") \in notifs' ]_vars

\* the primary started alone, then t2 joined: Smap v2 holds t2, and the batch
\* that went out carries Smap v2 and RMD 2
C11_Witness ==
    /\ clusterStarted
    /\ smap.Version = 2
    /\ DOMAIN smap.Tmap = {"t2"}
    /\ rmd.Version = 2
    /\ msync = [smapV |-> 2, rmdV |-> 2, pairs |-> {"smap", "bmd", "rmd"}]
    /\ NewXactNL(rmd, "") \in notifs

\* the listeners whose callback removes a node
RemovalListeners == {nl \in notifs : nl.rm # ""}

Answered(t, q) == q.resp = "ok" \/ (q.resp = "err-ok" /\ ~rebs[t].aborted)
\* the stages a probe asks for
DesiredStages == {rebStageTraverse, rebStageFin}
\* the targets that run a round
Running == {t \in DOMAIN smap.Tmap : rebs[t].rebID > 0}

\* C13: as long as a target stays in one round (one RebID), the stage that its
\* Status reports and the stage that any peer holds for it from its pushes
\* never go back.
C13_StageMonotone ==
    [][ \A t \in TargetIDs :
          /\ (Status(t, {}).RebID)' = Status(t, {}).RebID
                => (Status(t, {}).Stage)' >= Status(t, {}).Stage
          /\ \A p \in TargetIDs :
                (rebs'[t].rebID = rebs[t].rebID /\ rebs'[p].rebID = rebs[p].rebID)
                => rebs'[p].peers[t] >= rebs[p].peers[t] ]_vars
C13_Witness ==
    \E t, p \in Running :
        /\ t # p
        /\ rebs[t].rebID = 2 /\ rebs[t].stage = rebStageFin
        /\ rebs[p].rebID = 2 /\ rebs[p].peers[t] = rebStageFin

\* C14: a probe that gets a status with a RebID above the own one aborts the
\* local round, tells every peer of the abort, and reports that the desired
\* stage was not reached.
C14_NewerPeerAbortsAndBroadcasts ==
    \A t \in Running : \A q \in Probes(t) : \A d \in DesiredStages :
        (Answered(t, q) /\ Status(q.tsi, q.awaited).RebID > rebs[t].rebID)
        => LET r == checkGlobStatus(t, q.tsi, d, q.resp, q.awaited)
               x == rxReady(t, q.tsi, q.resp, q.awaited)
           IN  /\ r.act = "abortAndBroadcast"
               /\ ~r.ok
               /\ x.probed => (x.act = "abortAndBroadcast" /\ ~x.ok)
C14_Witness ==
    \E t, p \in Running :
        /\ rebs[t].rebID = 1 /\ rebs[p].rebID = 2
        /\ rebs[t].aborted /\ rebs[t].bcast /\ rebs[t].why = "runs newer"

\* C15 as stated: the round that a newer peer made stale ends aborted and no
\* abort broadcast goes out for it.
C15_NewerEpochNoBroadcast ==
    \A t \in Running : \A q \in Probes(t) : \A d \in DesiredStages :
        (Answered(t, q) /\ Status(q.tsi, q.awaited).RebID > rebs[t].rebID)
        => LET c == checkGlobStatus(t, q.tsi, d, q.resp, q.awaited)
               after == Acted(t, c.act, c.log)
           IN  after[t].aborted /\ after[t].bcast = rebs[t].bcast

\* C15: the round that a newer peer made stale ends aborted and its abort is
\* broadcast; it is the abort learned from a peer of the same round that ends
\* the round without a broadcast of its own.
C15_NewerEpochBroadcasts ==
    \A t \in Running : \A q \in Probes(t) : \A d \in DesiredStages :
        LET st == Status(q.tsi, q.awaited)
            c == checkGlobStatus(t, q.tsi, d, q.resp, q.awaited)
            after == Acted(t, c.act, c.log)
        IN  /\ (Answered(t, q) /\ st.RebID > rebs[t].rebID)
                => after[t].aborted /\ after[t].bcast
            /\ (Answered(t, q) /\ st.RebID = rebs[t].rebID /\ st.Aborted)
                => after[t].aborted /\ after[t].bcast = rebs[t].bcast
C15_Witness ==
    \E t, p \in Running :
        /\ rebs[t].rebID = 1 /\ rebs[p].rebID = 2
        /\ rebs[t].aborted /\ rebs[t].bcast /\ rebs[t].why = "runs newer"
        /\ rebs[t].stage = rebStageTraverse
        /\ ~rebs[p].aborted

\* C16 as stated: a status with a RebID below the own one keeps the target
\* waiting: the round is not aborted, and neither checkGlobStatus nor rxReady
\* nor waitFinExtended gives ok on that status.
C16_LaggingPeerKeepsWaiting ==
    \A t \in Running : \A q \in Probes(t) : \A d \in DesiredStages :
        (Answered(t, q) /\ ~rebs[t].aborted
            /\ Status(q.tsi, q.awaited).RebID < rebs[t].rebID)
        => LET c == checkGlobStatus(t, q.tsi, d, q.resp, q.awaited)
               x == rxReady(t, q.tsi, q.resp, q.awaited)
               w == waitFinExtended(t, q.tsi, q.resp, q.awaited)
           IN  /\ c.act = "" /\ ~c.ok
               /\ x.probed => (x.act = "" /\ ~x.ok)
               /\ w.probed => (w.act = "" /\ ~w.ok)

\* C17: a probe that gets a status of the own round with Aborted set aborts
\* the local round and sends no abort to the peers.
C17_SameRoundAbortNotRebroadcast ==
    \A t \in Running : \A q \in Probes(t) : \A d \in DesiredStages :
        LET st == Status(q.tsi, q.awaited)
            c == checkGlobStatus(t, q.tsi, d, q.resp, q.awaited)
            after == Acted(t, c.act, c.log)
        IN  (Answered(t, q) /\ st.RebID = rebs[t].rebID /\ st.Aborted)
            => /\ c.act = "Abort" /\ ~c.ok
               /\ after[t].aborted /\ after[t].bcast = rebs[t].bcast
               /\ \A p \in Peers(t) : after[p] = rebs[p]
C17_Witness ==
    \E t, p \in Running :
        /\ rebs[t].rebID = rebs[p].rebID
        /\ rebs[p].aborted
        /\ rebs[t].aborted /\ ~rebs[t].bcast /\ rebs[t].why = "aborting as well"

Walkers == {t \in TargetIDs : xpro.x[t].st # "idle"}
AllWalked ==
    \A t \in TargetIDs :
        xpro.x[t].st = "done" /\ ~xpro.x[t].err /\ ~xpro.x[t].gone

LastInPool(i) == \A j \in DOMAIN regpool : j > i => regpool[j].id # regpool[i].id

C21_CommitErrors ==
    [][ \A h \in HoThreads : \A failed \in SUBSET BcastNodes(smap) :
          CommitWith(h, failed)
          => /\ exited' <=> ho[h].psi \in failed
             /\ cluSetPrimaryCommit(ho[h].psi, failed).logged = failed \ {ho[h].psi}
             /\ smap' = smap /\ smap'.Primary = ho[h].psi
             /\ ho[h].psi \notin failed
                   => ho'[h].pc = "idle" /\ ~inPrimaryTransition' ]_vars
C21_Witness ==
    /\ exited /\ smap.Primary = "p2" /\ inPrimaryTransition
    /\ \E h \in HoThreads : ho[h].pc = "idle" /\ ho[h].log = <<"flag", "becomeNonPrimary", "install", "commit">>

\* C22 as stated: DELETE /v1/cluster/daemon/{sid} goes on to remove the node
\* only for a request whose caller ID is sid; a request with another caller
\* ID is answered with an error and starts no removal.
C22_RemovalNeedsCallerID ==
    \A q \in DelRequests :
        LET r == httpcludel(q.sid, q.intra, q.cid)
        IN  /\ r.task # NoTask => (q.intra /\ q.cid = q.sid)
            /\ (GetNode(smap, q.sid) # NoNode /\ ~forwardCP(smap) /\ q.cid # q.sid)
                  => (r.err # "" /\ r.task = NoTask)

\* the bits that are set in a mask
BitsOf(x) == {i \in 0 .. (AccessBits - 1) : (x \div (2 ^ i)) % 2 = 1}

\* C23: a deny of the bits b that follows an allow of the same bits gives,
\* without an error, the mask that the deny alone gives on the mask from
\* before the allow.
C23_AllowThenDeny ==
    [][ (acc.err = "" /\ acc.action = AllowAccess
            /\ acc'.action = DenyAccess /\ acc'.bits = acc.bits)
        => /\ acc'.err = ""
           /\ ModifyAccess(acc.aattr, DenyAccess, acc.bits).err = ""
           /\ acc'.mask = ModifyAccess(acc.aattr, DenyAccess, acc.bits).mask ]_vars
C23_Witness ==
    /\ acc.paction = AllowAccess /\ acc.action = DenyAccess
    /\ acc.pbits = 3 /\ acc.bits = 3
    /\ acc.aattr = 7 /\ acc.mask = 4 /\ acc.err = ""

\* C24: allow returns the mask with all of the bits set in addition, deny
\* returns it with all of them cleared, both without an error; any other
\* action returns an error and the mask 0.
C24_ModifyAccess ==
    /\ acc.action = AllowAccess
          => acc.err = "" /\ BitsOf(acc.mask) = BitsOf(acc.aattr) \cup BitsOf(acc.bits)
    /\ acc.action = DenyAccess
          => acc.err = "" /\ BitsOf(acc.mask) = BitsOf(acc.aattr) \ BitsOf(acc.bits)
    /\ acc.action \in AccessActions \ {AllowAccess, DenyAccess}
          => acc.err # "" /\ acc.mask = 0
C24_Witness ==
    /\ acc.action = "toggle" /\ acc.aattr = 5 /\ acc.bits = 1
    /\ acc.err # "" /\ acc.mask = 0
    /\ acc.paction = DenyAccess

C26_Bcast ==
    /\ bc.called[bc.sid] = 0
    /\ \A t \in BcastTargets : bc.called[t] <= 1
    /\ \A t \in BcastTargets \ bc.tmap : bc.called[t] = 0
    /\ Cardinality(bc.incb) <= MaxBcastParallel
    /\ bc.pc = "done" =>
        /\ bc.incb = {}
        /\ \A t \in bc.tmap \ {bc.sid} : bc.called[t] = 1 /\ bc.ret[t] \in {"true", "false"}
        /\ bc.errCnt = Cardinality({t \in bc.tmap \ {bc.sid} : bc.ret[t] = "false"})

\* a bcast over three peers that ran MaxBcastParallel callbacks at once has
\* returned 2, one peer having answered true
C26_Witness ==
    /\ bc.pc = "done"
    /\ Cardinality(bc.tmap \ {bc.sid}) = 3
    /\ bc.peak = MaxBcastParallel
    /\ bc.errCnt = 2
    /\ \E t \in bc.tmap : bc.ret[t] = "true"

C28_RxReadyTerminates ==
    /\ (wt.fn = "rxReady" /\ wt.pc # "done") ~> (wt.fn = "rxReady" /\ wt.pc = "done")
    /\ [][/\ (RxReadyTop /\ isInStage(wt.t, wt.tsi, rebStageTraverse))
                => wt'.pc = "done" /\ wt'.ok
          /\ (RxReadyTop /\ wt'.pc = "done") => wt'.ok
          /\ (RxReadySleep /\ wt'.pc = "done")
                => /\ ~wt'.ok
                   /\ \/ rebs[wt.t].aborted
                      \/ wt'.curwt >= DestRetryTime + DestRetryTime \div 2
          /\ (RxReadySleep /\ wt'.pc # "done")
                => /\ ~rebs[wt.t].aborted
                   /\ wt'.curwt < DestRetryTime + DestRetryTime \div 2
          /\ (CallReturned /\ wt.fn = "rxReady" /\ ~wt.ok) => rebs'[wt.t].aborted]_vars
    /\ [](wt.fn = "rxReady" =>
            /\ wt.curwt <= DestRetryTime + DestRetryTime \div 2 + 2 * CplaneOperation
            /\ wt.probes * 2 * CplaneOperation
                 <= DestRetryTime + DestRetryTime \div 2 + 2 * CplaneOperation)

\* rxReady timed out on a peer that stayed short of Traverse, in a round
\* that nothing else aborted
C28_Witness ==
    /\ wt.fn = "rxReady"
    /\ wt.pc = "done"
    /\ ~wt.ok
    /\ wt.why = "timed out"
    /\ wt.curwt = DestRetryTime + DestRetryTime \div 2
    /\ ~rebs[wt.t].aborted
    /\ rebs[wt.tsi].stage < rebStageTraverse

\* C29: pingTarget makes at most 4 health probes; a probe without error
\* returns true; an error that is not an unreachable error returns false at
\* once; after an unreachable error it returns false when the version of
\* the node's Smap has passed the one of the round, or when that was the
\* 4th attempt, and otherwise probes again.
C29_PingTarget ==
    /\ [](wt.fn = "pingTarget" => wt.probes <= 4 /\ wt.i <= 4)
    /\ [][\A health \in PingResults : PingWith(health) =>
            /\ wt'.probes = wt.probes + 1
            /\ IF health = "ok" THEN wt'.pc = "done" /\ wt'.ok
               ELSE IF health = "error" THEN wt'.pc = "done" /\ ~wt'.ok
               ELSE IF wt.nver > wt.ver THEN wt'.pc = "done" /\ ~wt'.ok
               ELSE IF wt.probes + 1 = 4 THEN wt'.pc = "done" /\ ~wt'.ok
               ELSE wt'.pc = "top"]_vars

\* the 4th attempt failed like the three before it, under the Smap of the round
C29_Witness ==
    /\ wt.fn = "pingTarget"
    /\ wt.pc = "done"
    /\ ~wt.ok
    /\ wt.probes = 4
    /\ wt.why = "timed out"
    /\ wt.nver = wt.ver

\* C30: a coordinator that finds the push of the peer for the stage it
\* waits for (Traverse in rxReady, Fin in waitFinExtended) returns without
\* a Health probe; rxReady returns success, and waitFinExtended returns
\* success unless the round is aborted, in which case it returns failure.
C30_PushedSkipsProbe ==
    [][/\ (RxReadyTop /\ isInStage(wt.t, wt.tsi, rebStageTraverse))
            => wt'.pc = "done" /\ wt'.probes = wt.probes /\ wt'.ok
       /\ (WaitFinTop /\ isInStage(wt.t, wt.tsi, rebStageFin))
            => wt'.pc = "done" /\ wt'.probes = wt.probes
                 /\ (wt'.ok <=> ~rebs[wt.t].aborted)]_vars

\* C30 as stated: the coordinator that finds the push returns success
\* without a probe
C30_PushedMeansSuccess ==
    [][/\ (RxReadyTop /\ isInStage(wt.t, wt.tsi, rebStageTraverse))
            => wt'.pc = "done" /\ wt'.probes = wt.probes /\ wt'.ok
       /\ (WaitFinTop /\ isInStage(wt.t, wt.tsi, rebStageFin))
            => wt'.pc = "done" /\ wt'.probes = wt.probes /\ wt'.ok]_vars

\* waitFinExtended has returned failure in an aborted round, for a peer
\* that pushed Fin, without a probe
C30_Witness ==
    /\ wt.fn = "waitFinExtended"
    /\ wt.pc = "done"
    /\ ~wt.ok
    /\ wt.probes = 0
    /\ rebs[wt.t].aborted
    /\ isInStage(wt.t, wt.tsi, rebStageFin)

\* C31 as stated: a wait of the coordinator that is under way when the round
\* is aborted returns without success and without sleeping out its
\* interval, and the abort of an aborted round changes nothing.
C31_SleepsWakeOnAbort ==
    [][/\ (RxReadySleep /\ rebs[wt.t].aborted)
            => wt'.pc = "done" /\ ~wt'.ok /\ wt'.curwt = wt.curwt
       /\ (WaitFinTop /\ rebs[wt.t].aborted)
            => wt'.pc = "done" /\ ~wt'.ok /\ wt'.curwt = wt.curwt
       /\ (PingWith("unreachable") /\ rebs[wt.t].aborted)
            => wt'.pc = "done" /\ ~wt'.ok /\ wt'.curwt = wt.curwt
       /\ \A t \in TargetIDs : (AbortRound(t) /\ rebs[t].aborted) => rebs' = rebs]_vars

\* pingTarget has returned success from its last attempt in an aborted round
C31_Witness ==
    /\ wt.fn = "pingTarget"
    /\ wt.pc = "done"
    /\ wt.ok
    /\ wt.probes = MaxPings
    /\ wt.curwt = (MaxPings - 1) * CplaneOperation
    /\ rebs[wt.t].aborted

\* C32: a call of checkGlobStatus makes one Health probe or two; it makes the
\* second exactly when the first returned an error and the round was not
\* aborted by the end of the KeepaliveRetry sleep, and with the round
\* aborted it returns after the first, without success.
C32_RetryOnce ==
    \A t \in Running : \A q \in Probes(t) : \A d \in DesiredStages :
        LET c == checkGlobStatus(t, q.tsi, d, q.resp, q.awaited)
            failed == q.resp \in {"err-ok", "err-err"}
        IN  /\ c.probes \in {1, 2}
            /\ c.probes = 2 <=> (failed /\ ~rebs[t].aborted)
            /\ (failed /\ rebs[t].aborted) => (~c.ok /\ c.act = "" /\ c.status = NilStatus)

\* a target in an aborted round and a target in a running one: the first
\* gives up after a failed probe, the second probes again
C32_Witness ==
    \E t, p \in Running :
        /\ rebs[t].aborted
        /\ ~rebs[p].aborted
        /\ checkGlobStatus(t, p, rebStageFin, "err-ok", {}).probes = 1
        /\ checkGlobStatus(t, p, rebStageFin, "err-ok", {}).log = "abort check status"
        /\ checkGlobStatus(p, t, rebStageFin, "err-ok", {}).probes = 2

C34_RacingJoinsRebalanceOnce ==
    \A t \in BagToSet(pending) :
        ( /\ t.verb = "upd" /\ IsTarget(t.id)
          /\ GetTarget(smap, t.id) # NoNode
          /\ GetTarget(smap, t.id).ep = t.ep
          /\ ~PreFails(t) )
        => LET r == Modify(t)
           IN  /\ DOMAIN r.smap.Tmap = DOMAIN smap.Tmap
               /\ r.rmd.Version = rmd.Version
               /\ r.notifs = notifs

\* the first of two racing joins of t1 has run: t1 is in the Smap, the RMD
\* went up and its listener is registered, and the second update is pending
C34_Witness ==
    /\ \E t \in BagToSet(pending) :
          /\ t.verb = "upd" /\ t.id = "t1"
          /\ GetTarget(smap, "t1") # NoNode
          /\ GetTarget(smap, "t1").ep = t.ep
          /\ Modify(t).rmd.Version = rmd.Version + 1
    /\ rmd.Version = 2
    /\ \E nl \in notifs : nl.uuid = 2

\* in the calls of a handler, the listener is registered before the last
\* sync(), the one that carries the RMD
ListenerFirst(ev) ==
    \E i, j \in DOMAIN ev :
        /\ ev[i] = "notifs.add" /\ ev[j] = "sync" /\ i < j
        /\ \A k \in DOMAIN ev : k > j => ev[k] # "sync"

\* C35 as stated: on every path that increments the RMD (the update of a
\* join, the removal of a node, the end and the start of a maintenance, the
\* rebalance a user starts) the listener of the new rebalance ID is added to
\* the primary's notifs before the new RMD is handed to the metasyncer.
C35_ListenerBeforeSync ==
    /\ \A t \in BagToSet(pending) :
          Modify(t).rmd.Version > rmd.Version => ListenerFirst(Modify(t).ev)
    /\ \A q \in MemberRms :
          LET r == rmNode(q.action, q.sid, q.skipRebalance)
          IN  r.rmd.Version > rmd.Version => ListenerFirst(r.ev)
    /\ rebalanceCluster.rmd.Version > rmd.Version => ListenerFirst(rebalanceCluster.ev)

\* t1 was put under maintenance with a rebalance: the RMD of the new round
\* went to the metasyncer and the round has its listener
C35_Witness ==
    /\ PresentInMaint(smap, "t1")
    /\ rmd.Version = 2
    /\ msync.rmdV = 2 /\ "rmd" \in msync.pairs
    /\ \E nl \in notifs : nl.uuid = 2

\* C36 as stated: a removal that runs while the primary has not finished
\* starting leaves the node in the Smap, returns an error with status 503,
\* and neither installs a Smap version, nor increments the RMD, nor calls
\* the metasyncer.
C36_UnregBeforeStarted ==
    \A t \in BagToSet(pending) :
        (t.verb = "unreg" /\ ~nodeStarted /\ ~PreFails(t))
        => LET r == unregNode("", t.id, t.skipReb)
           IN  /\ GetNode(r.smap, t.id) = GetNode(smap, t.id)
               /\ r.err # "" /\ r.ctx.status = 503
               /\ r.smap.Version = smap.Version
               /\ r.rmd = rmd
               /\ ~Has(r.ev, "sync")

\* the removal of t1, which is in the Smap, is about to run on a primary that
\* has not started: it answers 503 without an error and installs its clone
C36_Witness ==
    \E t \in BagToSet(pending) :
        /\ t.verb = "unreg" /\ t.id = "t1" /\ ~nodeStarted
        /\ GetNode(smap, "t1") # NoNode
        /\ LET r == unregNode("", t.id, t.skipReb)
           IN  /\ r.ctx.status = 503 /\ r.err = ""
               /\ GetNode(r.smap, "t1") = GetNode(smap, "t1")
               /\ r.smap.Version = smap.Version + 1
               /\ Has(r.ev, "sync")

\* C37 as stated: waitFinExtended takes a peer as not waiting for the local
\* target only when the peer is in stage WaitAck of the same round; a peer of
\* the same round that is still in Init or Traverse is never a success
\* because the local target is missing from the Targets of its Status.
C37_NotWaitingOnlyInWaitAck ==
    \A t \in Running : \A q \in Probes(t) :
        LET st == Status(q.tsi, q.awaited)
            w == waitFinExtended(t, q.tsi, q.resp, q.awaited)
        IN  ( /\ Answered(t, q) /\ ~rebs[t].aborted
              /\ st.RebID = rebs[t].rebID /\ ~st.Aborted
              /\ st.Stage \in {rebStageInit, rebStageTraverse} )
            => ~(w.probed /\ w.ok)

\* t and its peer p run the same round, p is in Traverse and pushed no Fin,
\* and the probe of waitFinExtended on t ends with "not waiting for me"
C37_Witness ==
    \E t, p \in Running :
        /\ t # p
        /\ rebs[t].rebID = rebs[p].rebID
        /\ ~rebs[t].aborted /\ ~rebs[p].aborted
        /\ rebs[p].stage = rebStageTraverse
        /\ ~isInStage(t, p, rebStageFin)
        /\ LET w == waitFinExtended(t, p, "ok", {})
           IN  w.probed /\ w.ok /\ w.log = "ok (not waiting for me)"

\* C38: whenever checkGlobStatus returns the nil status with ok = false, the
\* local round is aborted by the time it returns; the probe of
\* waitFinExtended that got the nil status returns at its abort check
\* ("abort wack", failure) and does not look at the Targets of the status.
C38_NilStatusLeavesByAbort ==
    /\ [](\A t \in Running : \A q \in Probes(t) : \A d \in DesiredStages :
            LET c == checkGlobStatus(t, q.tsi, d, q.resp, q.awaited)
            IN  (c.status = NilStatus /\ ~c.ok) => Acted(t, c.act, c.log)[t].aborted)
    /\ [][\A q \in CallProbes :
            ( /\ WaitFinProbeWith(q)
              /\ checkGlobStatus(wt.t, wt.tsi, rebStageFin, q.resp, q.awaited).status
                    = NilStatus )
            => /\ rebs'[wt.t].aborted
               /\ wt'.pc = "done" /\ ~wt'.ok /\ wt'.why = "abort wack"]_vars

\* Health failed twice in the probe of waitFinExtended: the round was aborted
\* there and the call returned failure at the abort check
C38_Witness ==
    /\ wt.fn = "waitFinExtended"
    /\ wt.pc = "done" /\ ~wt.ok /\ wt.why = "abort wack"
    /\ wt.probes >= 1
    /\ rebs[wt.t].aborted /\ rebs[wt.t].bcast
    /\ rebs[wt.t].why = "health returned err"

\* the handlers of cluSetPrimary that are past their prepare broadcast and
\* have not returned
InTransition == {h \in HoThreads : ho[h].pc \in {"prepared", "inpre", "installed"}}

\* C39 as stated: inPrimaryTransition is true only while a call of
\* cluSetPrimary is between its successful prepare broadcast and the end of
\* its commit broadcast, it is false when the handler has returned, and with
\* several handovers under way it stays true as long as one of them has not
\* finished its commit phase.
C39_FlagWhileAnyInTransition ==
    ~exited => (inPrimaryTransition <=> InTransition # {})

\* one handover has returned and reset the flag while the other is in its
\* commit phase
C39_Witness ==
    \E h, g \in HoThreads :
        /\ ~exited
        /\ ho[h].pc = "idle"
        /\ ho[h].log = <<"flag", "becomeNonPrimary", "install", "commit">>
        /\ ho[g].pc = "installed"
        /\ ~inPrimaryTransition

==========================================================================
